---- MODULE Spec2Model ----
(***************************************************************************)
(* A model of the charms contract verification engine: the canonical       *)
(* spell model (src/src/spell.rs), the contract sandbox and satisfaction   *)
(* engine (src/charms-app-runner/src/lib.rs), the spell checker            *)
(* (src/charms-spell-checker/src/lib.rs) and the proving / checking entry  *)
(* points (src/src/spell.rs, src/src/cli/spell.rs).                        *)
(*                                                                         *)
(* Option<T> is a sequence of length at most one: None == <<>>,            *)
(* Some(x) == <<x>>.  A BTreeMap<App, Data> is the strictly ascending      *)
(* sequence of its <<key, value>> pairs, which is what its iterator        *)
(* yields; the other maps are functions.                                   *)
(***************************************************************************)
EXTENDS Integers, Sequences, FiniteSets, TLC

(***************************************************************************)
(* Bounds of the model.                                                    *)
(***************************************************************************)
\* App identities are 1..MaxApp.
MaxApp == 2
\* Non-empty Data values are 1..MaxData; 0 is Data::empty().
MaxData == 2
\* Execution steps a terminating bytecode consumes are 1..MaxSteps.
MaxSteps == 2
\* Cycles the zkVM reports for a run of the spell checker are 0..MaxSpellCycles.
MaxSpellCycles == 1
\* The buffers of an iovec array hold 0..MaxIov bytes each.
MaxIov == 2
\* A guest writes at most MaxWrites bytes to its stderr.
MaxWrites == 2
\* A thread calls Shared::get 1..MaxGets times.
MaxGets == 2
\* retry is given a timeout of 0..MaxSecs seconds and f is called at most
\* MaxCalls times.
MaxSecs == 2
MaxCalls == 3

\* const MAX_FUEL_PER_RUN: u64 = 1000000000;
MAX_FUEL_PER_RUN == 1000000000

None == <<>>
Some(x) == <<x>>
IsSome(o) == Len(o) = 1
IsNone(o) == Len(o) = 0

(***************************************************************************)
(* Data model.                                                             *)
(***************************************************************************)
\* The verification keys (B32 content hashes) and the transaction ids in play:
\* opaque identifiers, compared and ordered only.
Vks == {1, 2}
TxIds == {1, 2}
\* App: an orderable identity that includes a verification key.
Apps == [id : 1..MaxApp, vk : Vks]
\* Ord for App: lexicographic on the fields.
AppLess(a, b) == a.id < b.id \/ (a.id = b.id /\ a.vk < b.vk)

EmptyData == 0

\* The bytecode of an app: what it does when started and the steps it takes.
\*   "return"  _start returns normally after `steps` steps
\*   "trap"    _start traps after `steps` steps
\*   "spin"    _start needs more than MAX_FUEL_PER_RUN steps, then returns
Ops == {"return", "trap", "spin"}
Binaries == [op : Ops, steps : 1..MaxSteps]
OpCode(op) == CASE op = "return" -> 0 [] op = "trap" -> 1 [] OTHER -> 2
FuelNeeded(bin) == IF bin.op = "spin" THEN MAX_FUEL_PER_RUN + bin.steps ELSE bin.steps

\* Sha256::digest(binary) as a B32: a digest of the content.
Sha256(bin) == ((OpCode(bin.op) + bin.steps) % Cardinality(Vks)) + 1

(***************************************************************************)
(* BTreeMap<App, Data> as its ascending sequence of pairs.                 *)
(***************************************************************************)
BTreeInsert(m, k, v) ==
    SelectSeq(m, LAMBDA p : AppLess(p[1], k)) \o << <<k, v>> >>
        \o SelectSeq(m, LAMBDA p : AppLess(k, p[1]))

\* A collection that keeps the order in which the pairs were given.
BTreeCollect_unsorted(pairs) == pairs

RECURSIVE BTreeCollect(_)
BTreeCollect(pairs) ==
    IF pairs = <<>> THEN <<>>
    ELSE LET n == Len(pairs)
         IN  BTreeInsert(BTreeCollect(SubSeq(pairs, 1, n - 1)), pairs[n][1], pairs[n][2])

BTreeKeys(m) == {m[i][1] : i \in DOMAIN m}
BTreeGet(m, k) ==
    LET hit == SelectSeq(m, LAMBDA p : p[1] = k)
    IN  IF hit = <<>> THEN None ELSE Some(hit[1][2])

RECURSIVE SumSeq(_)
SumSeq(s) == IF s = <<>> THEN 0 ELSE s[1] + SumSeq(Tail(s))

(***************************************************************************)
(* Transaction view and the simple-transfer predicate.                     *)
(***************************************************************************)
\* Charms: a function from a set of Apps to Data.
CharmOf(charms, app) == IF app \in DOMAIN charms THEN charms[app] ELSE 0
EmptyCharms == [a \in {} |-> 0]

\* The app's aggregate charm value entering via the inputs equals its
\* aggregate charm value leaving via the outputs.
is_simple_transfer(app, tx) ==
    SumSeq([i \in DOMAIN tx.ins |-> CharmOf(tx.ins[i][2], app)])
        = SumSeq([i \in DOMAIN tx.outs |-> CharmOf(tx.outs[i], app)])

(***************************************************************************)
(* Contract sandbox: AppRunner::run.                                       *)
(***************************************************************************)
\* util::write(&(app, tx, x, w))
StdinContent(app, tx, x, w) == <<app, tx, x, w>>

Ok(cycles, events) == [ok |-> TRUE, err |-> "", cycles |-> cycles, events |-> events]
Err(e, events) == [ok |-> FALSE, err |-> e, cycles |-> 0, events |-> events]

AppRunner_vk(binary) == Sha256(binary)

\* A run that does not bind the bytecode to the app's verification key.
AppRunner_run_unbound(count_cycles, app_binary, app, tx, x, w) ==
    LET hashed == << [ev |-> "vk", app |-> app] >>
        started == hashed \o << [ev |-> "exec", app |-> app,
                                 stdin |-> StdinContent(app, tx, x, w)] >>
    IN  IF count_cycles /\ FuelNeeded(app_binary) > MAX_FUEL_PER_RUN
        THEN Err("out of fuel", started)
        ELSE IF app_binary.op = "trap" THEN Err("error running wasm", started)
        ELSE Ok(IF count_cycles THEN FuelNeeded(app_binary) ELSE 0, started)

AppRunner_run(count_cycles, app_binary, app, tx, x, w) ==
    LET vk == AppRunner_vk(app_binary)
        hashed == << [ev |-> "vk", app |-> app] >>
        started == hashed \o << [ev |-> "exec", app |-> app,
                                 stdin |-> StdinContent(app, tx, x, w)] >>
        remaining == MAX_FUEL_PER_RUN - FuelNeeded(app_binary)
    IN  IF app.vk # vk THEN Err("app.vk mismatch", hashed)
        ELSE IF count_cycles /\ FuelNeeded(app_binary) > MAX_FUEL_PER_RUN
             THEN Err("out of fuel", started)
        ELSE IF app_binary.op = "trap" THEN Err("error running wasm", started)
        ELSE Ok(IF count_cycles THEN MAX_FUEL_PER_RUN - remaining ELSE 0, started)

(***************************************************************************)
(* Contract satisfaction engine: AppRunner::run_all.                       *)
(***************************************************************************)
\* An element that looks the binary up before it asks for a simple transfer.
RunAllItem_lookup_first(count_cycles, app_binaries, tx, app, x, app_private_inputs) ==
    LET looked == << [ev |-> "lookup", app |-> app] >>
    IN  IF app.vk \notin DOMAIN app_binaries THEN Err("app binary not found", looked)
        ELSE IF is_simple_transfer(app, tx)
             THEN Ok(0, looked \o << [ev |-> "simple", app |-> app] >>)
        ELSE LET got == BTreeGet(app_private_inputs, app)
                 w == IF IsSome(got) THEN got[1] ELSE EmptyData
                 r == AppRunner_run(count_cycles, app_binaries[app.vk], app, tx, x, w)
             IN  [r EXCEPT !.events = looked \o @]

\* An element that passes over an app that has no binary.
RunAllItem_skip_missing(count_cycles, app_binaries, tx, app, x, app_private_inputs) ==
    IF is_simple_transfer(app, tx)
    THEN Ok(0, << [ev |-> "simple", app |-> app] >>)
    ELSE LET looked == << [ev |-> "lookup", app |-> app] >>
         IN  IF app.vk \in DOMAIN app_binaries
             THEN LET got == BTreeGet(app_private_inputs, app)
                      w == IF IsSome(got) THEN got[1] ELSE EmptyData
                      r == AppRunner_run(count_cycles, app_binaries[app.vk], app, tx, x, w)
                  IN  [r EXCEPT !.events = looked \o @]
             ELSE Ok(0, looked)

\* An element that hands every app the private input of the first app.
RunAllItem_first_private(count_cycles, app_binaries, tx, app, x, app_private_inputs) ==
    IF is_simple_transfer(app, tx)
    THEN Ok(0, << [ev |-> "simple", app |-> app] >>)
    ELSE LET looked == << [ev |-> "lookup", app |-> app] >>
         IN  IF app.vk \in DOMAIN app_binaries
             THEN LET w == IF app_private_inputs = <<>> THEN EmptyData
                           ELSE app_private_inputs[1][2]
                      r == AppRunner_run(count_cycles, app_binaries[app.vk], app, tx, x, w)
                  IN  [r EXCEPT !.events = looked \o @]
             ELSE Err("app binary not found", looked)

\* An element that charges a simple transfer one cycle.
RunAllItem_charged(count_cycles, app_binaries, tx, app, x, app_private_inputs) ==
    IF is_simple_transfer(app, tx)
    THEN Ok(1, << [ev |-> "simple", app |-> app] >>)
    ELSE LET looked == << [ev |-> "lookup", app |-> app] >>
         IN  IF app.vk \in DOMAIN app_binaries
             THEN LET got == BTreeGet(app_private_inputs, app)
                      w == IF IsSome(got) THEN got[1] ELSE EmptyData
                      r == AppRunner_run(count_cycles, app_binaries[app.vk], app, tx, x, w)
                  IN  [r EXCEPT !.events = looked \o @]
             ELSE Err("app binary not found", looked)

\* One element of the iterator: the closure of run_all applied to (app, x).
RunAllItem(count_cycles, app_binaries, tx, app, x, app_private_inputs) ==
    IF is_simple_transfer(app, tx)
    THEN Ok(0, << [ev |-> "simple", app |-> app] >>)
    ELSE LET looked == << [ev |-> "lookup", app |-> app] >>
         IN  IF app.vk \in DOMAIN app_binaries
             THEN LET got == BTreeGet(app_private_inputs, app)
                      w == IF IsSome(got) THEN got[1] ELSE EmptyData
                      r == AppRunner_run(count_cycles, app_binaries[app.vk], app, tx, x, w)
                  IN  [r EXCEPT !.events = looked \o @]
             ELSE Err("app binary not found", looked)

\* A collection that drops the failed elements and keeps the others.
RECURSIVE RunAllFrom_partial(_, _, _, _, _, _)
RunAllFrom_partial(count_cycles, app_binaries, tx, items, app_private_inputs, i) ==
    IF i > Len(items) THEN [ok |-> TRUE, err |-> "", cycles |-> <<>>, events |-> <<>>]
    ELSE LET r == RunAllItem(count_cycles, app_binaries, tx, items[i][1], items[i][2],
                             app_private_inputs)
             rest == RunAllFrom_partial(count_cycles, app_binaries, tx, items,
                                        app_private_inputs, i + 1)
         IN  [ok |-> TRUE, err |-> "",
              cycles |-> (IF r.ok THEN <<r.cycles>> ELSE <<>>) \o rest.cycles,
              events |-> r.events \o rest.events]

\* collect::<Result<Vec<_>>>() over the map's iterator: the first Err ends it.
RECURSIVE RunAllFrom(_, _, _, _, _, _)
RunAllFrom(count_cycles, app_binaries, tx, items, app_private_inputs, i) ==
    IF i > Len(items) THEN [ok |-> TRUE, err |-> "", cycles |-> <<>>, events |-> <<>>]
    ELSE LET r == RunAllItem(count_cycles, app_binaries, tx, items[i][1], items[i][2],
                             app_private_inputs)
         IN  IF ~r.ok THEN [ok |-> FALSE, err |-> r.err, cycles |-> <<>>, events |-> r.events]
             ELSE LET rest == RunAllFrom(count_cycles, app_binaries, tx, items,
                                         app_private_inputs, i + 1)
                  IN  [ok |-> rest.ok, err |-> rest.err,
                       cycles |-> IF rest.ok THEN <<r.cycles>> \o rest.cycles ELSE <<>>,
                       events |-> r.events \o rest.events]

AppRunner_run_all(count_cycles, app_binaries, tx, app_public_inputs, app_private_inputs) ==
    RunAllFrom(count_cycles, app_binaries, tx, app_public_inputs, app_private_inputs, 1)

(***************************************************************************)
(* Canonical spell model: src/src/spell.rs.                                *)
(* A String is the sequence of its character codes, ordered                *)
(* lexicographically as BTreeMap<String, _> orders its keys.               *)
(***************************************************************************)
RECURSIVE StrLess(_, _)
StrLess(s, t) ==
    IF t = <<>> THEN FALSE
    ELSE IF s = <<>> THEN TRUE
    ELSE IF s[1] # t[1] THEN s[1] < t[1]
    ELSE StrLess(Tail(s), Tail(t))

RECURSIVE SortStrs(_)
SortStrs(S) ==
    IF S = {} THEN <<>>
    ELSE LET m == CHOOSE a \in S : \A b \in S \ {a} : StrLess(a, b)
         IN  <<m>> \o SortStrs(S \ {m})

\* The Apps of a set in descending order.
RECURSIVE SortApps_descending(_)
SortApps_descending(S) ==
    IF S = {} THEN <<>>
    ELSE LET m == CHOOSE a \in S : \A b \in S \ {a} : AppLess(b, a)
         IN  <<m>> \o SortApps_descending(S \ {m})

RECURSIVE SortApps(_)
SortApps(S) ==
    IF S = {} THEN <<>>
    ELSE LET m == CHOOSE a \in S : \A b \in S \ {a} : AppLess(a, b)
         IN  <<m>> \o SortApps(S \ {m})

Range(s) == {s[i] : i \in DOMAIN s}
IndexOf(s, x) == CHOOSE i \in DOMAIN s : s[i] = x

\* The protocol version the client library supports.
CURRENT_VERSION == "CURRENT_VERSION"

Fail(e) == [ok |-> FALSE, err |-> e, val |-> <<>>]
Good(v) == [ok |-> TRUE, err |-> "", val |-> v]

\* A map of inputs that has entries for the apps given an input only.
app_inputs_given(keyed_apps, keyed_inputs) ==
    LET keys == SortStrs(DOMAIN keyed_apps \cap DOMAIN keyed_inputs)
    IN  BTreeCollect([i \in DOMAIN keys |-> << keyed_apps[keys[i]], keyed_inputs[keys[i]] >>])

\* fn app_inputs(keyed_apps, keyed_inputs) -> BTreeMap<App, Data>
app_inputs(keyed_apps, keyed_inputs) ==
    LET keys == SortStrs(DOMAIN keyed_apps)
    IN  BTreeCollect([i \in DOMAIN keys |->
            << keyed_apps[keys[i]],
               IF keys[i] \in DOMAIN keyed_inputs THEN keyed_inputs[keys[i]] ELSE EmptyData >>])

\* Spell::charms: the keyed charms of one input or output as Charms.
Spell_charms(spell, charms_opt) ==
    IF IsNone(charms_opt) THEN Fail("missing charms field")
    ELSE LET kc == charms_opt[1]
             keys == SortStrs(DOMAIN kc)
         IN  IF \E k \in DOMAIN kc : k \notin DOMAIN spell.apps THEN Fail("missing app")
             ELSE LET as == {spell.apps[k] : k \in DOMAIN kc}
                      last(a) == keys[CHOOSE i \in DOMAIN keys :
                                        /\ spell.apps[keys[i]] = a
                                        /\ \A j \in DOMAIN keys :
                                              spell.apps[keys[j]] = a => j <= i]
                  IN  Good([a \in as |-> kc[last(a)]])

\* Spell::strings_of_charms
Spell_strings_of_charms(spell, inputs) ==
    IF \E i \in DOMAIN inputs : IsNone(inputs[i].utxo_id) THEN Fail("missing input utxo_id")
    ELSE IF \E i \in DOMAIN inputs : ~Spell_charms(spell, inputs[i].charms).ok
         THEN LET i == CHOOSE i \in DOMAIN inputs :
                          /\ ~Spell_charms(spell, inputs[i].charms).ok
                          /\ \A j \in 1..(i - 1) : Spell_charms(spell, inputs[j].charms).ok
              IN  Fail(Spell_charms(spell, inputs[i].charms).err)
         ELSE Good([i \in DOMAIN inputs |->
                      << inputs[i].utxo_id[1], Spell_charms(spell, inputs[i].charms).val >>])

\* Spell::to_tx
Spell_to_tx(spell) ==
    LET ins == Spell_strings_of_charms(spell, spell.ins)
        refs == Spell_strings_of_charms(spell, IF IsSome(spell.refs) THEN spell.refs[1] ELSE <<>>)
        outs == [i \in DOMAIN spell.outs |-> Spell_charms(spell, spell.outs[i].charms)]
    IN  IF ~ins.ok THEN Fail(ins.err)
        ELSE IF ~refs.ok THEN Fail(refs.err)
        ELSE IF \E i \in DOMAIN outs : ~outs[i].ok
             THEN Fail(outs[CHOOSE i \in DOMAIN outs :
                               ~outs[i].ok /\ \A j \in 1..(i - 1) : outs[j].ok].err)
        ELSE Good([ins |-> ins.val, refs |-> refs.val,
                   outs |-> [i \in DOMAIN outs |-> outs[i].val]])

\* A normalization that does not compare the inputs' UtxoIds.
Spell_normalized_duplicate_inputs(spell) ==
    LET keyed_public_inputs == IF IsSome(spell.public_args) THEN spell.public_args[1]
                               ELSE [k \in {} |-> 0]
        keyed_apps == spell.apps
        apps == {keyed_apps[k] : k \in DOMAIN keyed_apps}
        sorted == SortApps(apps)
        app_to_index == [a \in apps |-> IndexOf(sorted, a) - 1]
        app_public_inputs == app_inputs(keyed_apps, keyed_public_inputs)
        ins == [i \in DOMAIN spell.ins |-> spell.ins[i].utxo_id]
        refs == IF IsNone(spell.refs) THEN None
                ELSE Some([i \in DOMAIN spell.refs[1] |-> spell.refs[1][i].utxo_id])
        kcharms(o) == IF IsSome(o.charms) THEN o.charms[1] ELSE [k \in {} |-> 0]
        outs == [i \in DOMAIN spell.outs |->
                    LET kc == kcharms(spell.outs[i])
                    IN  [n \in {app_to_index[keyed_apps[k]] : k \in DOMAIN kc} |->
                            kc[CHOOSE k \in DOMAIN kc : app_to_index[keyed_apps[k]] = n]]]
        beamed == {i \in DOMAIN spell.outs : IsSome(spell.outs[i].beam_to)}
        beamed_outs == IF beamed = {} THEN None
                       ELSE Some([n \in {i - 1 : i \in beamed} |-> spell.outs[n + 1].beam_to[1]])
        keyed_private_inputs == IF IsSome(spell.private_args) THEN spell.private_args[1]
                                ELSE [k \in {} |-> 0]
        beamed_ins == {i \in DOMAIN spell.ins : IsSome(spell.ins[i].beamed_from)}
    IN  IF spell.version # CURRENT_VERSION THEN Fail("version")
        ELSE IF Cardinality(apps) # Cardinality(DOMAIN keyed_apps) THEN Fail("duplicate apps")
        ELSE IF \E i \in DOMAIN ins : IsNone(ins[i]) THEN Fail("missing input utxo_id")
        ELSE IF IsSome(refs) /\ \E i \in DOMAIN refs[1] : IsNone(refs[1][i])
             THEN Fail("missing input utxo_id")
        ELSE IF \E i \in DOMAIN spell.outs :
                    \E k \in DOMAIN kcharms(spell.outs[i]) : k \notin DOMAIN keyed_apps
             THEN Fail("missing app key")
        ELSE Good([norm_spell |->
                      [version |-> spell.version,
                       tx |-> [ins |-> Some([i \in DOMAIN ins |-> ins[i][1]]),
                               refs |-> IF IsNone(refs) THEN None
                                        ELSE Some([i \in DOMAIN refs[1] |-> refs[1][i][1]]),
                               outs |-> outs,
                               beamed_outs |-> beamed_outs],
                       app_public_inputs |-> app_public_inputs,
                       mock |-> FALSE],
                   app_private_inputs |-> app_inputs(keyed_apps, keyed_private_inputs),
                   tx_ins_beamed_source_utxos |->
                      [u \in {spell.ins[i].utxo_id[1] : i \in beamed_ins} |->
                          spell.ins[CHOOSE i \in beamed_ins : spell.ins[i].utxo_id[1] = u]
                              .beamed_from[1]]])

\* Spell::normalized
Spell_normalized(spell) ==
    LET keyed_public_inputs == IF IsSome(spell.public_args) THEN spell.public_args[1]
                               ELSE [k \in {} |-> 0]
        keyed_apps == spell.apps
        apps == {keyed_apps[k] : k \in DOMAIN keyed_apps}
        sorted == SortApps(apps)
        app_to_index == [a \in apps |-> IndexOf(sorted, a) - 1]
        app_public_inputs == app_inputs(keyed_apps, keyed_public_inputs)
        ins == [i \in DOMAIN spell.ins |-> spell.ins[i].utxo_id]
        refs == IF IsNone(spell.refs) THEN None
                ELSE Some([i \in DOMAIN spell.refs[1] |-> spell.refs[1][i].utxo_id])
        kcharms(o) == IF IsSome(o.charms) THEN o.charms[1] ELSE [k \in {} |-> 0]
        outs == [i \in DOMAIN spell.outs |->
                    LET kc == kcharms(spell.outs[i])
                    IN  [n \in {app_to_index[keyed_apps[k]] : k \in DOMAIN kc} |->
                            kc[CHOOSE k \in DOMAIN kc : app_to_index[keyed_apps[k]] = n]]]
        beamed == {i \in DOMAIN spell.outs : IsSome(spell.outs[i].beam_to)}
        beamed_outs == IF beamed = {} THEN None
                       ELSE Some([n \in {i - 1 : i \in beamed} |-> spell.outs[n + 1].beam_to[1]])
        keyed_private_inputs == IF IsSome(spell.private_args) THEN spell.private_args[1]
                                ELSE [k \in {} |-> 0]
        beamed_ins == {i \in DOMAIN spell.ins : IsSome(spell.ins[i].beamed_from)}
    IN  IF spell.version # CURRENT_VERSION THEN Fail("version")
        ELSE IF Cardinality(apps) # Cardinality(DOMAIN keyed_apps) THEN Fail("duplicate apps")
        ELSE IF \E i \in DOMAIN ins : IsNone(ins[i]) THEN Fail("missing input utxo_id")
        ELSE IF Cardinality({ins[i][1] : i \in DOMAIN ins}) # Len(ins)
             THEN Fail("duplicate inputs")
        ELSE IF IsSome(refs) /\ \E i \in DOMAIN refs[1] : IsNone(refs[1][i])
             THEN Fail("missing input utxo_id")
        ELSE IF \E i \in DOMAIN spell.outs :
                    \E k \in DOMAIN kcharms(spell.outs[i]) : k \notin DOMAIN keyed_apps
             THEN Fail("missing app key")
        ELSE Good([norm_spell |->
                      [version |-> spell.version,
                       tx |-> [ins |-> Some([i \in DOMAIN ins |-> ins[i][1]]),
                               refs |-> IF IsNone(refs) THEN None
                                        ELSE Some([i \in DOMAIN refs[1] |-> refs[1][i][1]]),
                               outs |-> outs,
                               beamed_outs |-> beamed_outs],
                       app_public_inputs |-> app_public_inputs,
                       mock |-> FALSE],
                   app_private_inputs |-> app_inputs(keyed_apps, keyed_private_inputs),
                   tx_ins_beamed_source_utxos |->
                      [u \in {spell.ins[i].utxo_id[1] : i \in beamed_ins} |->
                          spell.ins[CHOOSE i \in beamed_ins : spell.ins[i].utxo_id[1] = u]
                              .beamed_from[1]]])

\* utils::str_index: format!("${:04}", i), the decimal digits of i padded
\* with zeros to a width of four, after a "$".
RECURSIVE Decimal(_)
Decimal(i) == IF i < 10 THEN <<48 + i>> ELSE Decimal(i \div 10) \o <<48 + (i % 10)>>

RECURSIVE ZeroPad(_, _)
ZeroPad(s, width) == IF Len(s) >= width THEN s ELSE ZeroPad(<<48>> \o s, width)

\* An index written without padding.
str_index_unpadded(i) == <<36>> \o Decimal(i)

str_index(i) == <<36>> \o ZeroPad(Decimal(i), 4)

\* A de-normalization that leaves the beam-to markers out.
Spell_denormalized_unbeamed(norm_spell) ==
    LET api == norm_spell.app_public_inputs
        apps == [k \in {str_index(i - 1) : i \in DOMAIN api} |->
                    api[CHOOSE i \in DOMAIN api : str_index(i - 1) = k][1]]
        non_empty == {i \in DOMAIN api : api[i][2] # EmptyData}
        public_inputs ==
            IF non_empty = {} THEN None
            ELSE Some([k \in {str_index(i - 1) : i \in non_empty} |->
                          api[CHOOSE i \in non_empty : str_index(i - 1) = k][2]])
        input(utxo_id) == [utxo_id |-> Some(utxo_id), charms |-> None, beamed_from |-> None]
        beamed_outs == norm_spell.tx.beamed_outs
        output(i) ==
            LET n_charms == norm_spell.tx.outs[i]
            IN  [charms |-> IF DOMAIN n_charms = {} THEN None
                            ELSE Some([k \in {str_index(n) : n \in DOMAIN n_charms} |->
                                          n_charms[CHOOSE n \in DOMAIN n_charms :
                                                      str_index(n) = k]]),
                 beam_to |-> None]
    IN  IF IsNone(norm_spell.tx.ins) THEN Fail("spell must have inputs")
        ELSE Good([version |-> norm_spell.version,
                   apps |-> apps,
                   public_args |-> public_inputs,
                   private_args |-> None,
                   ins |-> [i \in DOMAIN norm_spell.tx.ins[1] |->
                               input(norm_spell.tx.ins[1][i])],
                   refs |-> IF IsNone(norm_spell.tx.refs) THEN None
                            ELSE Some([i \in DOMAIN norm_spell.tx.refs[1] |->
                                          input(norm_spell.tx.refs[1][i])]),
                   outs |-> [i \in DOMAIN norm_spell.tx.outs |-> output(i)]])

\* Spell::denormalized
Spell_denormalized(norm_spell) ==
    LET api == norm_spell.app_public_inputs
        apps == [k \in {str_index(i - 1) : i \in DOMAIN api} |->
                    api[CHOOSE i \in DOMAIN api : str_index(i - 1) = k][1]]
        non_empty == {i \in DOMAIN api : api[i][2] # EmptyData}
        public_inputs ==
            IF non_empty = {} THEN None
            ELSE Some([k \in {str_index(i - 1) : i \in non_empty} |->
                          api[CHOOSE i \in non_empty : str_index(i - 1) = k][2]])
        input(utxo_id) == [utxo_id |-> Some(utxo_id), charms |-> None, beamed_from |-> None]
        beamed_outs == norm_spell.tx.beamed_outs
        output(i) ==
            LET n_charms == norm_spell.tx.outs[i]
            IN  [charms |-> IF DOMAIN n_charms = {} THEN None
                            ELSE Some([k \in {str_index(n) : n \in DOMAIN n_charms} |->
                                          n_charms[CHOOSE n \in DOMAIN n_charms :
                                                      str_index(n) = k]]),
                 beam_to |-> IF IsSome(beamed_outs) /\ (i - 1) \in DOMAIN beamed_outs[1]
                             THEN Some(beamed_outs[1][i - 1]) ELSE None]
    IN  IF IsNone(norm_spell.tx.ins) THEN Fail("spell must have inputs")
        ELSE Good([version |-> norm_spell.version,
                   apps |-> apps,
                   public_args |-> public_inputs,
                   private_args |-> None,
                   ins |-> [i \in DOMAIN norm_spell.tx.ins[1] |->
                               input(norm_spell.tx.ins[1][i])],
                   refs |-> IF IsNone(norm_spell.tx.refs) THEN None
                            ELSE Some([i \in DOMAIN norm_spell.tx.refs[1] |->
                                          input(norm_spell.tx.refs[1][i])]),
                   outs |-> [i \in DOMAIN norm_spell.tx.outs |-> output(i)]])

(***************************************************************************)
(* The client library's view of a NormalizedSpell and its ancestors        *)
(* (charms_client: apps, prev_spells, well_formed, to_tx).                 *)
(* A UtxoId is <<txid, output index>>; a Tx is [tx_id, spell].             *)
(***************************************************************************)
\* The marker an ancestor output carries when it is beamed to `utxo`.
UtxoIdHash(utxo) == 10 * utxo[1] + utxo[2]

\* charms_client::apps: the spell's Apps in ascending order.
apps(spell) == [i \in DOMAIN spell.app_public_inputs |-> spell.app_public_inputs[i][1]]

\* charms_client::prev_spells: the ancestor map, by transaction id.
prev_spells(prev_txs) ==
    [t \in {prev_txs[i].tx_id : i \in DOMAIN prev_txs} |->
        prev_txs[CHOOSE i \in DOMAIN prev_txs :
                    /\ prev_txs[i].tx_id = t
                    /\ \A j \in DOMAIN prev_txs : prev_txs[j].tx_id = t => j <= i].spell]

\* NormalizedTransaction::prev_txids
prev_txids(tx) ==
    IF IsNone(tx.ins) THEN None
    ELSE Some({tx.ins[1][i][1] : i \in DOMAIN tx.ins[1]}
              \cup (IF IsSome(tx.refs) THEN {tx.refs[1][i][1] : i \in DOMAIN tx.refs[1]}
                    ELSE {}))

\* The charms an ancestor's output carries, keyed by App.
charms_in_utxo(prev_spell, utxo) ==
    IF (utxo[2] + 1) \notin DOMAIN prev_spell.tx.outs THEN EmptyCharms
    ELSE LET n_charms == prev_spell.tx.outs[utxo[2] + 1]
             as == apps(prev_spell)
         IN  [a \in {as[n + 1] : n \in DOMAIN n_charms} |-> n_charms[IndexOf(as, a) - 1]]

\* The beam-destination marker of an ancestor's output, if any.
beamed_out_to_hash(prev_spell, utxo) ==
    IF IsSome(prev_spell.tx.beamed_outs) /\ utxo[2] \in DOMAIN prev_spell.tx.beamed_outs[1]
    THEN Some(prev_spell.tx.beamed_outs[1][utxo[2]])
    ELSE None

\* charms_client::well_formed: the structural consistency checks.
well_formed(spell, prevs, tx_ins_beamed_source_utxos) ==
    LET created(utxo) ==
            /\ utxo[1] \in DOMAIN prevs
            /\ (utxo[2] + 1) \in DOMAIN prevs[utxo[1]].tx.outs
            /\ IsNone(beamed_out_to_hash(prevs[utxo[1]], utxo))
        beamed_in(utxo) ==
            /\ utxo \in DOMAIN tx_ins_beamed_source_utxos
            /\ LET src == tx_ins_beamed_source_utxos[utxo]
               IN  /\ src[1] \in DOMAIN prevs
                   /\ beamed_out_to_hash(prevs[src[1]], src) = Some(UtxoIdHash(utxo))
        n_apps == Len(apps(spell))
    IN  /\ spell.version = CURRENT_VERSION
        /\ IsSome(spell.tx.ins)
        /\ IsSome(spell.tx.refs) => \A i \in DOMAIN spell.tx.refs[1] : created(spell.tx.refs[1][i])
        /\ \A i \in DOMAIN spell.tx.ins[1] :
              LET utxo == spell.tx.ins[1][i]
              IN  IF utxo \in DOMAIN tx_ins_beamed_source_utxos THEN beamed_in(utxo)
                  ELSE created(utxo)
        /\ DOMAIN tx_ins_beamed_source_utxos \subseteq Range(spell.tx.ins[1])
        /\ \A i \in DOMAIN spell.tx.outs : \A n \in DOMAIN spell.tx.outs[i] : n < n_apps

\* charms_client::to_tx: the resolved Transaction view.  It indexes the
\* ancestor map, so a missing ancestor aborts the caller.
to_tx(spell, prevs, tx_ins_beamed_source_utxos) ==
    LET source(utxo) == IF utxo \in DOMAIN tx_ins_beamed_source_utxos
                        THEN tx_ins_beamed_source_utxos[utxo] ELSE utxo
        ins == IF IsSome(spell.tx.ins) THEN spell.tx.ins[1] ELSE <<>>
        refs == IF IsSome(spell.tx.refs) THEN spell.tx.refs[1] ELSE <<>>
        as == apps(spell)
    IN  IF \/ IsNone(spell.tx.ins)
           \/ \E i \in DOMAIN ins : source(ins[i])[1] \notin DOMAIN prevs
           \/ \E i \in DOMAIN refs : refs[i][1] \notin DOMAIN prevs
           \/ \E i \in DOMAIN spell.tx.outs : \E n \in DOMAIN spell.tx.outs[i] : n >= Len(as)
        THEN Fail("panic")
        ELSE Good([ins |-> [i \in DOMAIN ins |->
                              << ins[i], charms_in_utxo(prevs[source(ins[i])[1]], source(ins[i])) >>],
                   refs |-> [i \in DOMAIN refs |->
                              << refs[i], charms_in_utxo(prevs[refs[i][1]], refs[i]) >>],
                   outs |-> [i \in DOMAIN spell.tx.outs |->
                              [a \in {as[n + 1] : n \in DOMAIN spell.tx.outs[i]} |->
                                  spell.tx.outs[i][IndexOf(as, a) - 1]]]])

(***************************************************************************)
(* Spell checker: src/charms-spell-checker/src/lib.rs.                     *)
(* A call's outcome: returned (FALSE when it panicked), value, events.     *)
(***************************************************************************)
WellFormedEvent(ok) == [ev |-> "well_formed", ok |-> ok]

\* fn apps_satisfied(app_input, tx) -> bool; expect() panics on an Err.
apps_satisfied(app_input, tx) ==
    LET r == AppRunner_run_all(FALSE, app_input.app_binaries, tx,
                               app_input.app_public_inputs, app_input.app_private_inputs)
    IN  [returned |-> r.ok, value |-> r.ok, events |-> r.events]

\* A checker that does not compare the referenced ids with the ancestor map.
is_correct_any_ancestors(spell, prev_txs, app_input, tx_ins_beamed_source_utxos) ==
    LET prevs == prev_spells(prev_txs)
        wf == well_formed(spell, prevs, tx_ins_beamed_source_utxos)
        checked == << WellFormedEvent(wf) >>
        charms_tx == to_tx(spell, prevs, tx_ins_beamed_source_utxos)
        as == apps(spell)
    IN  IF ~wf THEN [returned |-> TRUE, value |-> FALSE, events |-> checked]
        ELSE IF ~charms_tx.ok THEN [returned |-> FALSE, value |-> FALSE, events |-> checked]
        ELSE IF (\A i \in DOMAIN as : is_simple_transfer(as[i], charms_tx.val))
                    /\ IsNone(app_input)
             THEN [returned |-> TRUE, value |-> TRUE, events |-> checked]
        ELSE IF IsSome(app_input)
             THEN LET s == apps_satisfied(app_input[1], charms_tx.val)
                  IN  [returned |-> s.returned, value |-> s.value,
                       events |-> checked \o s.events]
        ELSE [returned |-> TRUE, value |-> FALSE, events |-> checked]

\* A checker that takes the absence of app input for satisfaction.
is_correct_lenient(spell, prev_txs, app_input, tx_ins_beamed_source_utxos) ==
    LET prevs == prev_spells(prev_txs)
        wf == well_formed(spell, prevs, tx_ins_beamed_source_utxos)
        checked == << WellFormedEvent(wf) >>
        all_prev_txids == {tx_ins_beamed_source_utxos[u][1] :
                              u \in DOMAIN tx_ins_beamed_source_utxos}
                          \cup prev_txids(spell.tx)[1]
        charms_tx == to_tx(spell, prevs, tx_ins_beamed_source_utxos)
    IN  IF ~wf THEN [returned |-> TRUE, value |-> FALSE, events |-> checked]
        ELSE IF all_prev_txids # DOMAIN prevs
             THEN [returned |-> TRUE, value |-> FALSE, events |-> checked]
        ELSE IF ~charms_tx.ok THEN [returned |-> FALSE, value |-> FALSE, events |-> checked]
        ELSE IF IsNone(app_input)
             THEN [returned |-> TRUE, value |-> TRUE, events |-> checked]
        ELSE LET s == apps_satisfied(app_input[1], charms_tx.val)
             IN  [returned |-> s.returned, value |-> s.value, events |-> checked \o s.events]

\* fn is_correct(spell, prev_txs, app_input, spell_vk, tx_ins_beamed_source_utxos) -> bool
is_correct(spell, prev_txs, app_input, tx_ins_beamed_source_utxos) ==
    LET prevs == prev_spells(prev_txs)
        wf == well_formed(spell, prevs, tx_ins_beamed_source_utxos)
        checked == << WellFormedEvent(wf) >>
        all_prev_txids == {tx_ins_beamed_source_utxos[u][1] :
                              u \in DOMAIN tx_ins_beamed_source_utxos}
                          \cup prev_txids(spell.tx)[1]
        charms_tx == to_tx(spell, prevs, tx_ins_beamed_source_utxos)
        as == apps(spell)
    IN  IF ~wf THEN [returned |-> TRUE, value |-> FALSE, events |-> checked]
        ELSE IF all_prev_txids # DOMAIN prevs
             THEN [returned |-> TRUE, value |-> FALSE, events |-> checked]
        ELSE IF ~charms_tx.ok THEN [returned |-> FALSE, value |-> FALSE, events |-> checked]
        ELSE IF (\A i \in DOMAIN as : is_simple_transfer(as[i], charms_tx.val))
                    /\ IsNone(app_input)
             THEN [returned |-> TRUE, value |-> TRUE, events |-> checked]
        ELSE IF IsSome(app_input)
             THEN LET s == apps_satisfied(app_input[1], charms_tx.val)
                  IN  [returned |-> s.returned, value |-> s.value,
                       events |-> checked \o s.events]
        ELSE [returned |-> TRUE, value |-> FALSE, events |-> checked]

(***************************************************************************)
(* Proving and checking entry points: src/src/spell.rs,                    *)
(* src/src/cli/spell.rs.  An outcome records whether the call returned     *)
(* (FALSE: it panicked), whether it returned Ok, the per-app cycles, the   *)
(* total it reports and the events of the call in program order.           *)
(***************************************************************************)
Outcome(path, returned, ok, err, cycles, events, spell, arg) ==
    [path |-> path, returned |-> returned, ok |-> ok, err |-> err, cycles |-> cycles,
     total |-> SumSeq(cycles), events |-> events, spell |-> spell, arg |-> arg]

\* tx::txs_by_txid
txs_by_txid(prev_txs) ==
    [t \in {prev_txs[i].tx_id : i \in DOMAIN prev_txs} |->
        prev_txs[CHOOSE i \in DOMAIN prev_txs :
                    /\ prev_txs[i].tx_id = t
                    /\ \A j \in DOMAIN prev_txs : prev_txs[j].tx_id = t => j <= i]]

\* fn ensure_all_prev_txs_are_present(spell, tx_ins_beamed_source_utxos, prev_txs_by_id)
ensure_all_prev_txs_are_present(spell, tx_ins_beamed_source_utxos, prev_txs_by_id) ==
    /\ IsSome(spell.tx.ins)
    /\ \A i \in DOMAIN spell.tx.ins[1] : spell.tx.ins[1][i][1] \in DOMAIN prev_txs_by_id
    /\ IsSome(spell.tx.refs) =>
          \A i \in DOMAIN spell.tx.refs[1] : spell.tx.refs[1][i][1] \in DOMAIN prev_txs_by_id
    /\ \A u \in DOMAIN tx_ins_beamed_source_utxos :
          /\ u[1] \in DOMAIN prev_txs_by_id
          /\ tx_ins_beamed_source_utxos[u][1] \in DOMAIN prev_txs_by_id

make_mock(norm_spell) == [norm_spell EXCEPT !.mock = TRUE]
\* An on-chain form that drops the reference inputs with the inputs.
clear_inputs_and_refs(norm_spell) == [norm_spell EXCEPT !.tx.ins = None, !.tx.refs = None]
clear_inputs(norm_spell) == [norm_spell EXCEPT !.tx.ins = None]

\* ProveSpellTxImpl::validate_prove_request.  chain_ok: the chain-specific
\* checks that follow (change address, output addresses, sats balance) pass.
validate_prove_request(prove_request, chain_ok) ==
    LET arg == [chain_ok |-> chain_ok]
        prev_txs == prove_request.prev_txs
        prev_txs_by_id == txs_by_txid(prev_txs)
        n == Spell_normalized(prove_request.spell)
        norm_spell == n.val.norm_spell
        beamed == n.val.tx_ins_beamed_source_utxos
        prevs == prev_spells(prev_txs)
        tx == to_tx(norm_spell, prevs, beamed)
        r == AppRunner_run_all(TRUE, prove_request.binaries, tx.val,
                               norm_spell.app_public_inputs, n.val.app_private_inputs)
        wf == well_formed(norm_spell, prevs, beamed)
        checked == r.events \o << WellFormedEvent(wf) >>
    IN  IF ~n.ok THEN Outcome("validate", TRUE, FALSE, n.err, <<>>, <<>>, None, arg)
        ELSE IF ~ensure_all_prev_txs_are_present(norm_spell, beamed, prev_txs_by_id)
             THEN Outcome("validate", TRUE, FALSE, "prev txs", <<>>, <<>>, None, arg)
        ELSE IF ~tx.ok THEN Outcome("validate", FALSE, FALSE, "panic", <<>>, <<>>, None, arg)
        ELSE IF ~r.ok THEN Outcome("validate", TRUE, FALSE, r.err, <<>>, r.events, None, arg)
        ELSE IF ~wf
             THEN Outcome("validate", TRUE, FALSE, "not well-formed", <<>>, checked, None, arg)
        ELSE IF ~chain_ok
             THEN Outcome("validate", TRUE, FALSE, "chain", <<>>, checked, None, arg)
        ELSE Outcome("validate", TRUE, TRUE, "", r.cycles, checked, None, arg)

\* impl Prove for MockProver: prove.  count_cycles is the configuration of
\* self.app_runner.
MockProver_prove(count_cycles, norm_spell0, app_binaries, app_private_inputs, prev_txs, tx_ins_beamed_source_utxos) ==
    LET arg == [count_cycles |-> count_cycles]
        norm_spell == make_mock(norm_spell0)
        prevs == prev_spells(prev_txs)
        tx == to_tx(norm_spell, prevs, tx_ins_beamed_source_utxos)
        r == AppRunner_run_all(count_cycles, app_binaries, tx.val,
                               norm_spell.app_public_inputs, app_private_inputs)
        skip == DOMAIN app_binaries = {}
        cycles == IF skip THEN <<>> ELSE r.cycles
        events == IF skip THEN <<>> ELSE r.events
        wf == well_formed(norm_spell, prevs, tx_ins_beamed_source_utxos)
        checked == events \o << WellFormedEvent(wf) >>
    IN  IF ~skip /\ ~tx.ok THEN Outcome("mock_prove", FALSE, FALSE, "panic", <<>>, <<>>, None, arg)
        ELSE IF ~skip /\ ~r.ok
             THEN Outcome("mock_prove", TRUE, FALSE, r.err, <<>>, r.events, None, arg)
        ELSE IF ~wf
             THEN Outcome("mock_prove", TRUE, FALSE, "spell is not well-formed", <<>>, checked,
                          None, arg)
        ELSE Outcome("mock_prove", TRUE, TRUE, "", cycles, checked,
                     Some(clear_inputs(norm_spell)), arg)

\* impl Prove for Prover: prove.  The app proof is a run of the app checker
\* (run_all, with the runner configuration count_cycles) in the zkVM, the
\* spell proof a run of the spell checker (is_correct) on the prover input;
\* spell_cycles is what the zkVM reports for the latter.
Prover_prove(count_cycles, spell_cycles, norm_spell, app_binaries, app_private_inputs, prev_txs, tx_ins_beamed_source_utxos) ==
    LET arg == [count_cycles |-> count_cycles, spell_cycles |-> spell_cycles]
        prevs == prev_spells(prev_txs)
        tx == to_tx(norm_spell, prevs, tx_ins_beamed_source_utxos)
        skip == DOMAIN app_binaries = {}
        r == AppRunner_run_all(count_cycles, app_binaries, tx.val,
                               norm_spell.app_public_inputs, app_private_inputs)
        cycles == IF skip THEN <<>> ELSE r.cycles
        events == IF skip THEN <<>> ELSE r.events
        app_cycles == SumSeq(cycles)
        app_input == IF skip THEN None
                     ELSE Some([app_binaries |-> app_binaries,
                                app_public_inputs |-> norm_spell.app_public_inputs,
                                app_private_inputs |-> app_private_inputs])
        c == is_correct(norm_spell, prev_txs, app_input, tx_ins_beamed_source_utxos)
    IN  IF norm_spell.mock
        THEN Outcome("prove", TRUE, FALSE, "trying to prove a mock spell with a real prover",
                     <<>>, <<>>, None, arg)
        ELSE IF ~tx.ok THEN Outcome("prove", FALSE, FALSE, "panic", <<>>, <<>>, None, arg)
        ELSE IF ~skip /\ ~r.ok THEN Outcome("prove", TRUE, FALSE, r.err, <<>>, r.events, None, arg)
        ELSE IF ~(c.returned /\ c.value)
             THEN Outcome("prove", TRUE, FALSE, "spell proof", <<>>, events \o c.events,
                          None, arg)
        ELSE [Outcome("prove", TRUE, TRUE, "", cycles, events \o c.events,
                      Some(clear_inputs(norm_spell)), arg)
                 EXCEPT !.total = app_cycles + spell_cycles]

\* cli::app::binaries_by_vk: the binaries read from files, keyed by their hash.
binaries_by_vk(app_bins) ==
    [k \in {AppRunner_vk(app_bins[i]) : i \in DOMAIN app_bins} |->
        app_bins[CHOOSE i \in DOMAIN app_bins :
                    /\ AppRunner_vk(app_bins[i]) = k
                    /\ \A j \in DOMAIN app_bins : AppRunner_vk(app_bins[j]) = k => j <= i]]

\* impl Check for SpellCli: check.  count_cycles is the configuration of
\* self.app_runner.
SpellCli_check(count_cycles, spell, app_bins, prev_txs) ==
    LET arg == [count_cycles |-> count_cycles]
        prevs == prev_spells(prev_txs)
        n == Spell_normalized(spell)
        norm_spell == n.val.norm_spell
        beamed == n.val.tx_ins_beamed_source_utxos
        wf == well_formed(norm_spell, prevs, beamed)
        checked == << WellFormedEvent(wf) >>
        binaries == binaries_by_vk(app_bins)
        charms_tx == Spell_to_tx(spell)
        r == AppRunner_run_all(count_cycles, binaries, charms_tx.val,
                               norm_spell.app_public_inputs, n.val.app_private_inputs)
    IN  IF \E i \in DOMAIN spell.ins : IsNone(spell.ins[i].utxo_id)
        THEN Outcome("check", TRUE, FALSE, "all spell inputs must have utxo_id", <<>>, <<>>,
                     None, arg)
        ELSE IF ~n.ok THEN Outcome("check", TRUE, FALSE, n.err, <<>>, <<>>, None, arg)
        ELSE IF ~wf
             THEN Outcome("check", TRUE, FALSE, "spell is not well-formed", <<>>, checked,
                          None, arg)
        ELSE IF ~charms_tx.ok
             THEN Outcome("check", TRUE, FALSE, charms_tx.err, <<>>, checked, None, arg)
        ELSE IF ~r.ok
             THEN Outcome("check", TRUE, FALSE, r.err, <<>>, checked \o r.events, None, arg)
        ELSE Outcome("check", TRUE, TRUE, "", r.cycles, checked \o r.events, None, arg)

(***************************************************************************)
(* The requests the model explores.                                        *)
(***************************************************************************)
\* The key a spell's author gives an app: "$" and two digits, chosen so that
\* the key order is the reverse of the App order.
Key(a) == <<36, MaxApp - a.id, Cardinality(Vks) - a.vk>>

\* Keyed charms for the apps of S with a non-zero value in f.
Keyed(S, f) == [k \in {Key(a) : a \in {b \in S : f[b] # 0}} |->
                  f[CHOOSE a \in S : Key(a) = k]]

\* An ancestor's spell in its on-chain form: one output carrying `charms`
\* (a function from Apps to non-empty Data), with an optional beam marker.
Ancestor(charms, marker) ==
    LET as == SortApps(DOMAIN charms)
    IN  [version |-> CURRENT_VERSION,
         tx |-> [ins |-> None, refs |-> None,
                 outs |-> << [n \in {i - 1 : i \in DOMAIN as} |-> charms[as[n + 1]]] >>,
                 beamed_outs |-> IF IsNone(marker) THEN None
                                 ELSE Some([n \in {0} |-> marker[1]])],
         app_public_inputs |-> [i \in DOMAIN as |-> <<as[i], EmptyData>>],
         mock |-> FALSE]

RECURSIVE SeqOfSet(_)
SeqOfSet(S) == IF S = {} THEN <<>>
               ELSE LET x == CHOOSE x \in S : TRUE IN <<x>> \o SeqOfSet(S \ {x})

NonZero(S, f) == [a \in {b \in S : f[b] # 0} |-> f[a]]

\* Spells of one or two apps.
SpellAppSets == {{a, b} : a \in Apps, b \in Apps}
VksOf(S) == {a.vk : a \in S}
BinaryMaps(S) == UNION {[D -> Binaries] : D \in SUBSET VksOf(S)}

\* Satisfaction requests: one input spending output 0 of ancestor 1, whose
\* charms are `inv`; one output giving every app of the spell the value 1.
SatRequest(S, inv, bins) ==
    [spell |-> [version |-> CURRENT_VERSION,
                apps |-> [k \in {Key(a) : a \in S} |-> CHOOSE a \in S : Key(a) = k],
                public_args |-> None,
                private_args |-> None,
                ins |-> << [utxo_id |-> Some(<<1, 0>>),
                            charms |-> Some(Keyed(S, inv)),
                            beamed_from |-> None] >>,
                refs |-> None,
                outs |-> << [charms |-> Some(Keyed(S, [a \in S |-> 1])),
                             beam_to |-> None] >>],
     prev_txs |-> << [tx_id |-> 1, spell |-> Ancestor(NonZero(S, inv), None)] >>,
     binaries |-> bins]

SatRequests ==
    {SatRequest(S, inv, bins) :
        <<S, inv, bins>> \in
            UNION {{S} \X [S -> 0..MaxData] \X BinaryMaps(S) : S \in SpellAppSets}}

\* Ancestry requests: one app, the first one, and a bytecode for it that
\* returns; the input, its declared charms, its beam source, a reference
\* input, the ancestors supplied and the charms and markers they carry vary.
FirstApp == CHOOSE a \in Apps : \A b \in Apps \ {a} : AppLess(a, b)
ReturningBinary(vk) == CHOOSE b \in Binaries : b.op = "return" /\ Sha256(b) = vk

AncRequest(t, declared, beamed_from, ref, K, M, v_anc, bins) ==
    LET S == {FirstApp}
        charms(v) == Keyed(S, [a \in S |-> v])
    IN  [spell |-> [version |-> CURRENT_VERSION,
                    apps |-> [k \in {Key(FirstApp)} |-> FirstApp],
                    public_args |-> None,
                    private_args |-> None,
                    ins |-> << [utxo_id |-> Some(<<t, 0>>),
                                charms |-> IF IsNone(declared) THEN None
                                           ELSE Some(charms(declared[1])),
                                beamed_from |-> beamed_from] >>,
                    refs |-> IF IsNone(ref) THEN None
                             ELSE Some(<< [utxo_id |-> ref, charms |-> Some(charms(0)),
                                           beamed_from |-> None] >>),
                    outs |-> << [charms |-> Some(charms(1)), beam_to |-> None] >>],
         prev_txs |-> [i \in DOMAIN SeqOfSet(K) |->
                          [tx_id |-> SeqOfSet(K)[i],
                           spell |-> Ancestor(NonZero(S, [a \in S |-> v_anc]),
                                              IF SeqOfSet(K)[i] \in M
                                              THEN Some(UtxoIdHash(<<t, 0>>)) ELSE None)]],
         binaries |-> bins]

OptUtxo == {None} \cup {Some(<<t, 0>>) : t \in TxIds}

AncRequests ==
    {AncRequest(p[1], p[2], p[3], p[4], p[5][1], p[5][2], p[6], p[7]) :
        p \in TxIds \X ({None} \cup {Some(v) : v \in 0..MaxData}) \X OptUtxo \X OptUtxo
              \X {<<K, M>> \in (SUBSET TxIds) \X (SUBSET TxIds) : M \subseteq K}
              \X (0..MaxData)
              \X {[v \in {} |-> 0], [v \in {FirstApp.vk} |-> ReturningBinary(FirstApp.vk)]}}

\* The sub-map of a BTreeMap with the keys in K.
Restrict(m, K) == SelectSeq(m, LAMBDA p : p[1] \in K)

\* The AppInput values a prover may hand to is_correct for a request.
AppInputs(r, n) ==
    {None} \cup
    {Some([app_binaries |-> r.binaries,
           app_public_inputs |-> Restrict(n.norm_spell.app_public_inputs, K),
           app_private_inputs |-> n.app_private_inputs]) :
        K \in SUBSET BTreeKeys(n.norm_spell.app_public_inputs)}

\* The binaries of a map, as the list of files the CLI is given.
AppBins(bins) == SeqOfSet({bins[k] : k \in DOMAIN bins})

(***************************************************************************)
(* State: the request at hand and the outcome of the call made on it.      *)
(***************************************************************************)
VARIABLES req, out

vars == <<req, out>>

Idle == [path |-> "none"]

Init == req \in SatRequests /\ out = Idle
InitAncestry == req \in AncRequests /\ out = Idle

\* The spell checker is run on the normalized spell of the request.
IsCorrectCall ==
    /\ out = Idle
    /\ Spell_normalized(req.spell).ok
    /\ LET n == Spell_normalized(req.spell).val
       IN  \E app_input \in AppInputs(req, n) :
              LET r == is_correct(n.norm_spell, req.prev_txs, app_input,
                                  n.tx_ins_beamed_source_utxos)
              IN  out' = Outcome("is_correct", r.returned, r.value, "", <<>>, r.events,
                                 None, [app_input |-> app_input])
    /\ UNCHANGED req

ValidateCall ==
    /\ out = Idle
    /\ \E chain_ok \in BOOLEAN : out' = validate_prove_request(req, chain_ok)
    /\ UNCHANGED req

MockProveCall ==
    /\ out = Idle
    /\ Spell_normalized(req.spell).ok
    /\ LET n == Spell_normalized(req.spell).val
       IN  \E count_cycles \in BOOLEAN :
              out' = MockProver_prove(count_cycles, n.norm_spell, req.binaries,
                                      n.app_private_inputs, req.prev_txs,
                                      n.tx_ins_beamed_source_utxos)
    /\ UNCHANGED req

ProveCall ==
    /\ out = Idle
    /\ Spell_normalized(req.spell).ok
    /\ LET n == Spell_normalized(req.spell).val
       IN  \E count_cycles \in BOOLEAN, spell_cycles \in 0..MaxSpellCycles :
              out' = Prover_prove(count_cycles, spell_cycles, n.norm_spell, req.binaries,
                                  n.app_private_inputs, req.prev_txs,
                                  n.tx_ins_beamed_source_utxos)
    /\ UNCHANGED req

SpellCheckCall ==
    /\ out = Idle
    /\ \E count_cycles \in BOOLEAN :
          out' = SpellCli_check(count_cycles, req.spell, AppBins(req.binaries), req.prev_txs)
    /\ UNCHANGED req

\* AppRunner::run_all on the request's resolved transaction view.
RunAllCall ==
    /\ out = Idle
    /\ Spell_normalized(req.spell).ok
    /\ LET n == Spell_normalized(req.spell).val
           tx == to_tx(n.norm_spell, prev_spells(req.prev_txs), n.tx_ins_beamed_source_utxos)
       IN  /\ tx.ok
           /\ \E count_cycles \in BOOLEAN :
                 LET r == AppRunner_run_all(count_cycles, req.binaries, tx.val,
                                            n.norm_spell.app_public_inputs,
                                            n.app_private_inputs)
                 IN  out' = Outcome("run_all", TRUE, r.ok, r.err, r.cycles, r.events, None,
                                    [count_cycles |-> count_cycles, tx |-> tx.val,
                                     app_public_inputs |-> n.norm_spell.app_public_inputs])
    /\ UNCHANGED req

\* AppRunner::run of one of the request's binaries for one of its apps.
RunCall ==
    /\ out = Idle
    /\ Spell_to_tx(req.spell).ok
    /\ \E k \in DOMAIN req.spell.apps, v \in DOMAIN req.binaries, count_cycles \in BOOLEAN :
          LET app == req.spell.apps[k]
              r == AppRunner_run(count_cycles, req.binaries[v], app,
                                 Spell_to_tx(req.spell).val, EmptyData, EmptyData)
          IN  out' = Outcome("run", TRUE, r.ok, r.err, IF r.ok THEN <<r.cycles>> ELSE <<>>,
                             r.events, None,
                             [count_cycles |-> count_cycles, app |-> app,
                              app_binary |-> req.binaries[v]])
    /\ UNCHANGED req

\* The spell checker and the app runner on the satisfaction requests.
Next ==
    \/ IsCorrectCall
    \/ RunAllCall
    \/ RunCall

Spec == Init /\ [][Next]_vars

\* The proving and checking entry points on the satisfaction requests.
NextProving ==
    \/ RunAllCall
    \/ ValidateCall
    \/ MockProveCall
    \/ ProveCall
    \/ SpellCheckCall

SpecProving == Init /\ [][NextProving]_vars

\* The spell checker and the entry points on the ancestry requests.
NextAncestry ==
    \/ IsCorrectCall
    \/ ValidateCall
    \/ MockProveCall
    \/ ProveCall
    \/ SpellCheckCall

SpecAncestry == InitAncestry /\ [][NextAncestry]_vars
(***************************************************************************)
(* The sandbox step by step: invocations of AppRunner::run in flight, each *)
(* with its HostState and Store.  The stdin buffer of a HostState is held  *)
(* by reference (Arc<Mutex<Vec<u8>>>): `heap` is the sequence of buffers   *)
(* allocated so far and a reference is an index into it.                   *)
(***************************************************************************)
\* What a bytecode may do besides the Ops above:
\*   "read"  _start reads its stdin to the end through fd_read, fails (traps)
\*           when what it read is not its whole input, then returns
\*   "exit"  _start calls proc_exit with a nonzero code, then returns
SandboxOps == Ops \cup {"read", "exit"}
SandboxBinaries == [op : SandboxOps, steps : 1..MaxSteps]

\* The invocations in flight.
Runs == {1, 2}
EmptyTx == [ins |-> <<>>, refs |-> <<>>, outs |-> <<>>]

\* One stdin buffer for all the invocations: the first one's.
NewStdin_shared(heap, stdin_content) ==
    IF heap = <<>> THEN [heap |-> <<stdin_content>>, ref |-> 1] ELSE [heap |-> heap, ref |-> 1]

\* Arc::new(Mutex::new(stdin_content)) with a buffer of every invocation's own.
NewStdin(heap, stdin_content) == [heap |-> Append(heap, stdin_content), ref |-> Len(heap) + 1]

\* fd_read_impl on fd 0 with one iovec of buf_len bytes: drains the bytes read.
fd_read_impl(stdin, buf_len) ==
    LET to_read == IF buf_len < Len(stdin) THEN buf_len ELSE Len(stdin)
    IN  [data |-> SubSeq(stdin, 1, to_read), stdin |-> SubSeq(stdin, to_read + 1, Len(stdin))]

\* The proc_exit the linker provides: |_: Caller<'_, HostState>, _: i32| {}
proc_exit(run, code) == run

\* A result that reports the fuel consumed whether or not cycles are counted.
RunResult_always_counted(count_cycles, app_binary, stdin_content, run) ==
    LET trapped == \/ app_binary.op = "trap"
                   \/ app_binary.op = "read" /\ run.mem # stdin_content
        exhausted == count_cycles /\ FuelNeeded(app_binary) > run.fuel
        fuel == IF count_cycles /\ ~exhausted THEN run.fuel - FuelNeeded(app_binary)
                ELSE IF count_cycles THEN 0 ELSE run.fuel
    IN  [fuel |-> fuel,
         result |-> IF exhausted THEN Err("out of fuel", <<>>)
                    ELSE IF trapped THEN Err("error running wasm", <<>>)
                    ELSE Ok(MAX_FUEL_PER_RUN - fuel, <<>>)]

\* A result that does not enforce the fuel cap.
RunResult_uncapped(count_cycles, app_binary, stdin_content, run) ==
    LET trapped == \/ app_binary.op = "trap"
                   \/ app_binary.op = "read" /\ run.mem # stdin_content
        fuel == IF count_cycles /\ FuelNeeded(app_binary) <= run.fuel
                THEN run.fuel - FuelNeeded(app_binary) ELSE 0
    IN  [fuel |-> fuel,
         result |-> IF trapped THEN Err("error running wasm", <<>>)
                    ELSE Ok(IF count_cycles THEN MAX_FUEL_PER_RUN - fuel ELSE 0, <<>>)]

\* What `_start` and the lines after it make of an invocation: the result of
\* the call, the error mapping and the cycles computed from the fuel left.
RunResult(count_cycles, app_binary, stdin_content, run) ==
    LET trapped == \/ app_binary.op = "trap"
                   \/ app_binary.op = "read" /\ run.mem # stdin_content
        exhausted == count_cycles /\ FuelNeeded(app_binary) > run.fuel
        fuel == IF count_cycles /\ ~exhausted THEN run.fuel - FuelNeeded(app_binary)
                ELSE IF count_cycles THEN 0 ELSE run.fuel
    IN  [fuel |-> fuel,
         result |-> IF exhausted THEN Err("out of fuel", <<>>)
                    ELSE IF trapped THEN Err("error running wasm", <<>>)
                    ELSE Ok(IF count_cycles THEN MAX_FUEL_PER_RUN - fuel ELSE 0, <<>>)]

NewRun == [pc |-> "new", stdin |-> 0, fuel |-> 0, mem |-> <<>>, result |-> None]

SandboxRequests ==
    {[count_cycles |-> p[1],
      calls |-> [i \in Runs |-> [app |-> [id |-> i, vk |-> p[2][i]],
                                 app_binary |-> p[3][i],
                                 tx |-> EmptyTx, x |-> EmptyData, w |-> i]]] :
        p \in BOOLEAN \X [Runs -> Vks] \X [Runs -> SandboxBinaries]}

InitSandbox ==
    /\ req \in SandboxRequests
    /\ out = [path |-> "sandbox", heap |-> <<>>, runs |-> [i \in Runs |-> NewRun]]

StdinOf(i) == StdinContent(req.calls[i].app, req.calls[i].tx, req.calls[i].x, req.calls[i].w)

\* run, lines 265-278: the hash check, the stdin buffer, the store and its fuel.
SandboxStart(i) ==
    /\ out.path = "sandbox"
    /\ out.runs[i].pc = "new"
    /\ LET c == req.calls[i]
           b == NewStdin(out.heap, StdinOf(i))
       IN  IF c.app.vk # AppRunner_vk(c.app_binary)
           THEN out' = [out EXCEPT !.runs[i].pc = "done",
                                   !.runs[i].result = Some(Err("app.vk mismatch", <<>>))]
           ELSE out' = [out EXCEPT !.heap = b.heap,
                                   !.runs[i].pc = "started",
                                   !.runs[i].stdin = b.ref,
                                   !.runs[i].fuel = IF req.count_cycles THEN MAX_FUEL_PER_RUN
                                                    ELSE 0]
    /\ UNCHANGED req

\* The bytecode reads its stdin to the end.
SandboxRead(i) ==
    /\ out.path = "sandbox"
    /\ out.runs[i].pc = "started"
    /\ req.calls[i].app_binary.op = "read"
    /\ LET stdin == out.heap[out.runs[i].stdin]
           r == fd_read_impl(stdin, Len(stdin) + 1)
       IN  out' = [out EXCEPT !.heap[out.runs[i].stdin] = r.stdin,
                              !.runs[i].mem = @ \o r.data,
                              !.runs[i].pc = "called"]
    /\ UNCHANGED req

\* The bytecode calls proc_exit(1).
SandboxExit(i) ==
    /\ out.path = "sandbox"
    /\ out.runs[i].pc = "started"
    /\ req.calls[i].app_binary.op = "exit"
    /\ out' = [out EXCEPT !.runs[i] = [proc_exit(@, 1) EXCEPT !.pc = "called"]]
    /\ UNCHANGED req

\* `_start` ends (returns, traps or runs out of fuel) and run returns.
SandboxFinish(i) ==
    /\ out.path = "sandbox"
    /\ \/ out.runs[i].pc = "called"
       \/ out.runs[i].pc = "started" /\ req.calls[i].app_binary.op \notin {"read", "exit"}
    /\ LET r == RunResult(req.count_cycles, req.calls[i].app_binary, StdinOf(i), out.runs[i])
       IN  out' = [out EXCEPT !.runs[i].pc = "done",
                              !.runs[i].fuel = r.fuel,
                              !.runs[i].result = Some(r.result)]
    /\ UNCHANGED req

NextSandbox ==
    \E i \in Runs :
        \/ SandboxStart(i)
        \/ SandboxRead(i)
        \/ SandboxExit(i)
        \/ SandboxFinish(i)

SpecSandbox == InitSandbox /\ [][NextSandbox]_vars

(***************************************************************************)
(* The inputs of the apps: run_all on spells whose public_args and         *)
(* private_args vary, for two apps that both have to be run.               *)
(***************************************************************************)
ArgApps == {a \in Apps : a.id = a.vk /\ a.id <= Cardinality(Vks)}
ArgMaps == {None} \cup {Some(f) : f \in UNION {[K -> 0..MaxData] : K \in SUBSET {Key(a) : a \in ArgApps}}}

ArgRequest(public_args, private_args) ==
    [SatRequest(ArgApps, [a \in ArgApps |-> 0], [v \in VksOf(ArgApps) |-> ReturningBinary(v)])
        EXCEPT !.spell.public_args = public_args, !.spell.private_args = private_args]

ArgRequests == {ArgRequest(p[1], p[2]) : p \in ArgMaps \X ArgMaps}

InitInputs == req \in ArgRequests /\ out = Idle

\* AppRunner::run_all called with a map of private inputs that has entries
\* for some of the apps only.
RunAllPrivateCall ==
    /\ out = Idle
    /\ Spell_normalized(req.spell).ok
    /\ LET n == Spell_normalized(req.spell).val
           tx == to_tx(n.norm_spell, prev_spells(req.prev_txs), n.tx_ins_beamed_source_utxos)
       IN  /\ tx.ok
           /\ \E count_cycles \in BOOLEAN, K \in SUBSET BTreeKeys(n.app_private_inputs) :
                 LET app_private_inputs == Restrict(n.app_private_inputs, K)
                     r == AppRunner_run_all(count_cycles, req.binaries, tx.val,
                                            n.norm_spell.app_public_inputs,
                                            app_private_inputs)
                 IN  out' = Outcome("run_all_private", TRUE, r.ok, r.err, r.cycles, r.events,
                                    None,
                                    [count_cycles |-> count_cycles, tx |-> tx.val,
                                     app_public_inputs |-> n.norm_spell.app_public_inputs,
                                     app_private_inputs |-> app_private_inputs])
    /\ UNCHANGED req

\* run_all on the requests whose app inputs vary.
NextInputs ==
    \/ RunAllCall
    \/ RunAllPrivateCall

SpecInputs == InitInputs /\ [][NextInputs]_vars

\* What run_all logs for a spell, computed as RunAllCall computes it.
RunAllOn(count_cycles, spell, prev_txs, binaries) ==
    LET n == Spell_normalized(spell).val
        tx == to_tx(n.norm_spell, prev_spells(prev_txs), n.tx_ins_beamed_source_utxos)
    IN  AppRunner_run_all(count_cycles, binaries, tx.val, n.norm_spell.app_public_inputs,
                          n.app_private_inputs)

\* The stdin contents handed to the runs of `app` in a log of events.
ExecStdin(events, app) ==
    {events[i].stdin : i \in {j \in DOMAIN events : events[j].ev = "exec" /\ events[j].app = app}}

\* The entry of key k in an optional keyed map of inputs.
OwnArg(args, k) == IF IsSome(args) /\ k \in DOMAIN args[1] THEN args[1][k] ELSE EmptyData

\* The keyed maps that give key k the same input as `args` does.
SameOwnArg(args, k) == {m \in ArgMaps : OwnArg(m, k) = OwnArg(args, k)}

(***************************************************************************)
(* Normalization and de-normalization: spells as their authors write them, *)
(* well-formed and not, over two apps and the keys "$a", "$b" and "$z"     *)
(* ("$z" is never a key of the app table).                                 *)
(***************************************************************************)
KeyA == <<36, 97>>
KeyB == <<36, 98>>
KeyZ == <<36, 122>>

Versions == {CURRENT_VERSION, "LEGACY_VERSION"}

\* The app tables: every assignment of the two apps to a set of the keys,
\* the ones that give both keys the same App included.
ShapeTables == UNION {[K -> ArgApps] : K \in SUBSET {KeyA, KeyB}}

ShapeInput(utxo_id, charms) == [utxo_id |-> utxo_id, charms |-> charms, beamed_from |-> None]
ShapeOutput(charms, beam_to) == [charms |-> charms, beam_to |-> beam_to]

InCharms == {None, Some([k \in {KeyA} |-> 1]), Some([k \in {KeyZ} |-> 1])}

\* Up to two inputs, with and without a UtxoId, with equal and distinct ones.
ShapeIns ==
    {<<>>}
    \cup {<<ShapeInput(u, c)>> : u \in OptUtxo, c \in InCharms}
    \cup {<<ShapeInput(p[1], p[2]), ShapeInput(p[3], None)>> :
              p \in OptUtxo \X InCharms \X OptUtxo}

ShapeRefs ==
    {None, Some(<<>>)}
    \cup {Some(<<ShapeInput(u, c)>>) : u \in OptUtxo, c \in {None, Some([k \in {KeyZ} |-> 1])}}

\* The keyed charms of an output: none, an empty map, values for the keys
\* of the table, a value for a key that is in no table.
OutCharms ==
    {None, Some([k \in {KeyZ} |-> 1])}
    \cup {Some(f) : f \in UNION {[K -> 1..MaxData] : K \in SUBSET {KeyA, KeyB}}}

ShapeOuts ==
    {<<>>}
    \cup {<<ShapeOutput(c, None)>> : c \in OutCharms}
    \cup {<<ShapeOutput(c, None), o>> :
              c \in OutCharms,
              o \in {ShapeOutput(None, Some(1)), ShapeOutput(Some([k \in {KeyB} |-> 1]), None)}}

ShapeArgs == {None} \cup {Some(f) : f \in UNION {[K -> 0..MaxData] : K \in SUBSET {KeyA, KeyB}}}

ShapeSpell(version, keyed_apps, public_args, private_args, ins, refs, outs) ==
    [version |-> version, apps |-> keyed_apps, public_args |-> public_args,
     private_args |-> private_args, ins |-> ins, refs |-> refs, outs |-> outs]

\* The spells whose version, app table, inputs and reference inputs vary.
AnchorSpells ==
    {ShapeSpell(p[1], p[2], None, None, p[3], p[4], p[5]) :
        p \in Versions \X ShapeTables \X ShapeIns \X ShapeRefs
              \X {<<>>, <<ShapeOutput(Some([k \in {KeyA} |-> 1]), None)>>,
                        <<ShapeOutput(Some([k \in {KeyZ} |-> 1]), None)>>}}

\* The spells of one anchored input whose app table, arguments and outputs vary.
ContentSpells ==
    {ShapeSpell(CURRENT_VERSION, p[1], p[2], p[3], <<ShapeInput(Some(<<1, 0>>), None)>>,
                None, p[4]) :
        p \in ShapeTables \X ShapeArgs \X {None, Some([k \in {KeyA} |-> 1])} \X ShapeOuts}

\* The spells whose inputs, reference inputs and outputs carry a charm map
\* or none, with the key "$a" in the app table.
TxRefs == {None} \cup {Some(<<ShapeInput(u, c)>>) : u \in OptUtxo, c \in InCharms}
TxOuts ==
    {<<ShapeOutput(None, None)>>,
     <<ShapeOutput(Some([k \in {KeyA} |-> 1]), None), ShapeOutput(None, None)>>,
     <<ShapeOutput(Some([k \in {KeyA} |-> 1]), None), ShapeOutput(Some([k \in {} |-> 1]), None)>>}
TxSpells ==
    {ShapeSpell(CURRENT_VERSION, p[1], None, None, p[2], p[3], p[4]) :
        p \in {t \in ShapeTables : KeyA \in DOMAIN t} \X ShapeIns \X TxRefs \X TxOuts}

InitSpell ==
    /\ \/ req \in {[spell |-> s] : s \in AnchorSpells}
       \/ req \in {[spell |-> s] : s \in ContentSpells}
       \/ req \in {[spell |-> s] : s \in TxSpells}
    /\ out = Idle

\* Spell::normalized on the spell at hand.
NormalizeCall ==
    /\ out = Idle
    /\ out' = [path |-> "normalized", result |-> Spell_normalized(req.spell)]
    /\ UNCHANGED req

\* Spell::denormalized on the NormalizedSpell just produced, as it is or with
\* its inputs cleared (the form a spell has on chain).
DenormalizeCall ==
    /\ out.path = "normalized"
    /\ out.result.ok
    /\ \E on_chain \in BOOLEAN :
          LET norm_spell == IF on_chain THEN clear_inputs(out.result.val.norm_spell)
                            ELSE out.result.val.norm_spell
          IN  out' = [path |-> "denormalized", norm_spell |-> norm_spell,
                      result |-> Spell_denormalized(norm_spell)]
    /\ UNCHANGED req

\* Spell::to_tx on the spell at hand.
ToTxCall ==
    /\ out = Idle
    /\ out' = [path |-> "to_tx", result |-> Spell_to_tx(req.spell)]
    /\ UNCHANGED req

NextSpell ==
    \/ NormalizeCall
    \/ DenormalizeCall
    \/ ToTxCall

SpecSpell == InitSpell /\ [][NextSpell]_vars

\* A renaming of the keys, applied to a keyed map, to an optional one and to
\* every keyed map of a spell.
Renamed(f, rho) == [k \in {rho[j] : j \in DOMAIN f} |-> f[CHOOSE j \in DOMAIN f : rho[j] = k]]
RenamedOpt(f_opt, rho) == IF IsNone(f_opt) THEN None ELSE Some(Renamed(f_opt[1], rho))
RenamedInputs(inputs, rho) ==
    [i \in DOMAIN inputs |-> [inputs[i] EXCEPT !.charms = RenamedOpt(@, rho)]]
RenamedSpell(spell, rho) ==
    [spell EXCEPT !.apps = Renamed(@, rho),
                  !.public_args = RenamedOpt(@, rho),
                  !.private_args = RenamedOpt(@, rho),
                  !.ins = RenamedInputs(@, rho),
                  !.refs = IF IsNone(@) THEN None ELSE Some(RenamedInputs(@[1], rho)),
                  !.outs = RenamedInputs(@, rho)]

\* Two renamings: one swaps "$a" and "$b", one gives them "$y" and "$x".
Renamings ==
    {(KeyA :> KeyB) @@ (KeyB :> KeyA) @@ (KeyZ :> KeyZ),
     (KeyA :> <<36, 121>>) @@ (KeyB :> <<36, 120>>) @@ (KeyZ :> KeyZ)}

\* The rank of an App in the ascending order of a set of Apps.
Rank(a, S) == Cardinality({b \in S : AppLess(b, a)})

\* The keys of the keyed charms of an input or output.
CharmKeys(x) == IF IsSome(x.charms) THEN DOMAIN x.charms[1] ELSE {}

\* The defects of a spell that normalization has to refuse.
WrongVersion(spell) == spell.version # CURRENT_VERSION
DuplicateApps(spell) == \E j, k \in DOMAIN spell.apps : j # k /\ spell.apps[j] = spell.apps[k]
DuplicateInputs(spell) ==
    \E i, j \in DOMAIN spell.ins :
        i # j /\ IsSome(spell.ins[i].utxo_id) /\ spell.ins[i].utxo_id = spell.ins[j].utxo_id
UnanchoredInput(spell) == \E i \in DOMAIN spell.ins : IsNone(spell.ins[i].utxo_id)
UnanchoredRef(spell) ==
    IsSome(spell.refs) /\ \E i \in DOMAIN spell.refs[1] : IsNone(spell.refs[1][i].utxo_id)
UnknownOutputKey(spell) ==
    \E i \in DOMAIN spell.outs : ~(CharmKeys(spell.outs[i]) \subseteq DOMAIN spell.apps)
UnknownInputKey(spell) ==
    \/ \E i \in DOMAIN spell.ins : ~(CharmKeys(spell.ins[i]) \subseteq DOMAIN spell.apps)
    \/ IsSome(spell.refs)
          /\ \E i \in DOMAIN spell.refs[1] :
                ~(CharmKeys(spell.refs[1][i]) \subseteq DOMAIN spell.apps)

\* The canonical projection of a spell: what its keyed maps say about Apps.
AppCharms(spell, x) ==
    [a \in {spell.apps[k] : k \in CharmKeys(x)} |->
        x.charms[1][CHOOSE k \in CharmKeys(x) : spell.apps[k] = a]]
UtxoIds(inputs) == [i \in DOMAIN inputs |-> inputs[i].utxo_id]
PublicInputs(spell) ==
    {<<spell.apps[k], OwnArg(spell.public_args, k)>> :
        k \in {j \in DOMAIN spell.apps : OwnArg(spell.public_args, j) # EmptyData}}
Projection(spell) ==
    [apps |-> Range(spell.apps),
     ins |-> UtxoIds(spell.ins),
     refs |-> IF IsNone(spell.refs) THEN None ELSE Some(UtxoIds(spell.refs[1])),
     outs |-> [i \in DOMAIN spell.outs |-> AppCharms(spell, spell.outs[i])],
     public_inputs |-> PublicInputs(spell),
     beam_to |-> [i \in DOMAIN spell.outs |-> spell.outs[i].beam_to]]

\* An input or reference input of the spell has no charm map.
InputList(spell) == spell.ins \o (IF IsSome(spell.refs) THEN spell.refs[1] ELSE <<>>)
UncharmedInput(spell) == \E i \in DOMAIN InputList(spell) : IsNone(InputList(spell)[i].charms)

\* The key "$000i" of an index below ten, written out.
PositionalKey(i) == <<36, 48, 48, 48, 48 + i>>

(***************************************************************************)
(* The fuel budget: AppRunner::run with the budget it gives the store      *)
(* (MAX_FUEL_PER_RUN in the source) as a parameter, run again under a      *)
(* larger budget.                                                          *)
(***************************************************************************)
\* A run that gives up for lack of fuel before it looks at the bytecode.
RunUnderBudget_fuel_first(budget, count_cycles, app_binary, app, tx, x, w) ==
    LET vk == AppRunner_vk(app_binary)
        hashed == << [ev |-> "vk", app |-> app] >>
        started == hashed \o << [ev |-> "exec", app |-> app,
                                 stdin |-> StdinContent(app, tx, x, w)] >>
    IN  IF count_cycles /\ FuelNeeded(app_binary) > budget THEN Err("out of fuel", started)
        ELSE IF app.vk # vk THEN Err("app.vk mismatch", hashed)
        ELSE IF app_binary.op = "trap" THEN Err("error running wasm", started)
        ELSE Ok(IF count_cycles THEN budget - (budget - FuelNeeded(app_binary)) ELSE 0, started)

\* AppRunner::run with store.set_fuel(budget) and cycles = budget - get_fuel().
RunUnderBudget(budget, count_cycles, app_binary, app, tx, x, w) ==
    LET vk == AppRunner_vk(app_binary)
        hashed == << [ev |-> "vk", app |-> app] >>
        started == hashed \o << [ev |-> "exec", app |-> app,
                                 stdin |-> StdinContent(app, tx, x, w)] >>
        remaining == budget - FuelNeeded(app_binary)
    IN  IF app.vk # vk THEN Err("app.vk mismatch", hashed)
        ELSE IF count_cycles /\ FuelNeeded(app_binary) > budget THEN Err("out of fuel", started)
        ELSE IF app_binary.op = "trap" THEN Err("error running wasm", started)
        ELSE Ok(IF count_cycles THEN budget - remaining ELSE 0, started)

\* Budgets below, at and above what the bytecodes need.
Budgets == (1..(MaxSteps + 1)) \cup {MAX_FUEL_PER_RUN, MAX_FUEL_PER_RUN + MaxSteps}

BudgetRequests ==
    [count_cycles : BOOLEAN, app_binary : Binaries, app : ArgApps, tx : {EmptyTx},
     x : {EmptyData}, w : 0..MaxData, budget : Budgets]

InitBudget == req \in BudgetRequests /\ out = Idle

RunOf(r) == RunUnderBudget(r.budget, r.count_cycles, r.app_binary, r.app, r.tx, r.x, r.w)

\* A run under the request's budget.
BudgetRunCall ==
    /\ out = Idle
    /\ out' = [path |-> "budget_run", result |-> RunOf(req)]
    /\ UNCHANGED req

\* The same bytecode and input run again under a larger budget.
RaisedBudgetRunCall ==
    /\ out.path \in {"budget_run", "raised_run"}
    /\ \E budget \in Budgets :
          /\ budget > req.budget
          /\ req' = [req EXCEPT !.budget = budget]
          /\ out' = [path |-> "raised_run", before |-> out.result, result |-> RunOf(req')]

NextBudget ==
    \/ BudgetRunCall
    \/ RaisedBudgetRunCall

SpecBudget == InitBudget /\ [][NextBudget]_vars

(***************************************************************************)
(* The host interface: one guest calling the functions the linker gives    *)
(* it (fd_read, fd_write, environ_sizes_get, environ_get, proc_exit).      *)
(* The host state of the run is its stdin buffer and its stderr; a guest   *)
(* pointer is inside or outside the guest's memory; `delivered` are the    *)
(* bytes written into the guest's buffers.  A call's record keeps its      *)
(* arguments, what it returned and wrote, and the buffers before it.       *)
(***************************************************************************)
Fds == 0..2
IoVecs == {<<>>} \cup [1..1 -> 0..MaxIov] \cup [1..2 -> 0..MaxIov]
HostContents == {StdinContent(a, EmptyTx, EmptyData, w) : a \in ArgApps, w \in 0..MaxData}

\* The loop of fd_read_impl over the iovec array: buffer after buffer is
\* filled from the front of stdin, until a buffer gets no byte.
RECURSIVE DrainInto(_, _, _)
DrainInto(stdin, iov_info, i) ==
    IF i > Len(iov_info) THEN [data |-> <<>>, stdin |-> stdin, operations |-> 0]
    ELSE LET r == fd_read_impl(stdin, iov_info[i])
         IN  IF r.data = <<>> THEN [data |-> <<>>, stdin |-> stdin, operations |-> 0]
             ELSE LET rest == DrainInto(r.stdin, iov_info, i + 1)
                  IN  [data |-> r.data \o rest.data, stdin |-> rest.stdin,
                       operations |-> rest.operations + 1]

HostCall(host, call, fd, arg, ret, reported, eprintln) ==
    [call |-> call, fd |-> fd, arg |-> arg, ret |-> ret, reported |-> reported, eprintln |-> eprintln,
     stdin_before |-> host.stdin, stderr_before |-> host.stderr]

Panicked(host, call, fd, arg) ==
    [host EXCEPT !.pc = "panicked", !.last = HostCall(host, call, fd, arg, 0, None, FALSE)]

\* fd_read: fd_read_impl, an Err of which is printed and turned into -1.
\* iovs_ok, bufs_ok, nread_ok: the iovec array, the buffers and the nread
\* word lie inside the guest's memory.
fd_read(host, memory, fd, iovs, iovs_ok, bufs_ok, nread_ok) ==
    LET drained == DrainInto(host.stdin, iovs, 1)
        read == [host EXCEPT !.stdin = drained.stdin]
        done == [read EXCEPT !.delivered = @ \o drained.data]
    IN  IF fd # 0 THEN [host EXCEPT !.last = HostCall(host, "fd_read", fd, iovs, -1, None, FALSE)]
        ELSE IF ~memory
             THEN [host EXCEPT !.last = HostCall(host, "fd_read", fd, iovs, -1, None, TRUE)]
        ELSE IF iovs # <<>> /\ ~iovs_ok THEN Panicked(host, "fd_read", fd, iovs)
        ELSE IF drained.operations > 0 /\ ~bufs_ok
             THEN [Panicked(host, "fd_read", fd, iovs) EXCEPT !.stdin = drained.stdin]
        ELSE IF ~nread_ok
             THEN [done EXCEPT !.last = HostCall(host, "fd_read", fd, iovs, -1, None, TRUE)]
        ELSE [done EXCEPT !.last = HostCall(host, "fd_read", fd, iovs, 0,
                                            Some(Len(drained.data)), FALSE)]

\* A write that takes any descriptor for the guest's stderr.
fd_write_any(host, memory, fd, data, bufs_ok, nwritten_ok) ==
    LET written == [host EXCEPT !.stderr = @ \o data]
    IN  IF ~memory \/ ~bufs_ok
        THEN [host EXCEPT !.last = HostCall(host, "fd_write", fd, data, -1, None, TRUE)]
        ELSE IF ~nwritten_ok
             THEN [written EXCEPT !.last = HostCall(host, "fd_write", fd, data, -1, None, TRUE)]
        ELSE [written EXCEPT !.last = HostCall(host, "fd_write", fd, data, 0, Some(Len(data)),
                                               FALSE)]

\* fd_write: fd_write_impl, an Err of which is printed and turned into -1.
fd_write(host, memory, fd, data, bufs_ok, nwritten_ok) ==
    LET written == [host EXCEPT !.stderr = @ \o data]
    IN  IF fd # 2 THEN [host EXCEPT !.last = HostCall(host, "fd_write", fd, data, -1, None, TRUE)]
        ELSE IF ~memory \/ ~bufs_ok
             THEN [host EXCEPT !.last = HostCall(host, "fd_write", fd, data, -1, None, TRUE)]
        ELSE IF ~nwritten_ok
             THEN [written EXCEPT !.last = HostCall(host, "fd_write", fd, data, -1, None, TRUE)]
        ELSE [written EXCEPT !.last = HostCall(host, "fd_write", fd, data, 0, Some(Len(data)),
                                               FALSE)]

\* environ_sizes_get: what it reports is <<environc, environ_buf_size>>, as
\* far as it got writing them.
environ_sizes_get(host, memory, environc_ok, environ_buf_size_ok) ==
    IF ~memory \/ ~environc_ok
    THEN [host EXCEPT !.last = HostCall(host, "environ_sizes_get", 0, None, -1, <<>>, TRUE)]
    ELSE IF ~environ_buf_size_ok
         THEN [host EXCEPT !.last = HostCall(host, "environ_sizes_get", 0, None, -1, <<0>>, TRUE)]
    ELSE [host EXCEPT !.last = HostCall(host, "environ_sizes_get", 0, None, 0, <<0, 0>>, FALSE)]

\* environ_get: nothing to write for an empty environment.
environ_get(host) == [host EXCEPT !.last = HostCall(host, "environ_get", 0, None, 0, None, FALSE)]

InitHost ==
    /\ req \in [content : HostContents, memory : BOOLEAN]
    /\ out = [path |-> "host", pc |-> "running", stdin |-> req.content, delivered |-> <<>>,
              stderr |-> <<>>, last |-> [call |-> "none"]]

FdReadCall ==
    /\ out.path = "host" /\ out.pc = "running"
    /\ \E fd \in Fds, iovs \in IoVecs, iovs_ok \in BOOLEAN, bufs_ok \in BOOLEAN, nread_ok \in BOOLEAN :
          out' = fd_read(out, req.memory, fd, iovs, iovs_ok, bufs_ok, nread_ok)
    /\ UNCHANGED req

FdWriteCall ==
    /\ out.path = "host" /\ out.pc = "running"
    /\ Len(out.stderr) < MaxWrites
    /\ \E fd \in Fds, bufs_ok \in BOOLEAN, nwritten_ok \in BOOLEAN :
          out' = fd_write(out, req.memory, fd, <<fd + 1>>, bufs_ok, nwritten_ok)
    /\ UNCHANGED req

EnvironSizesGetCall ==
    /\ out.path = "host" /\ out.pc = "running"
    /\ \E environc_ok \in BOOLEAN, environ_buf_size_ok \in BOOLEAN :
          out' = environ_sizes_get(out, req.memory, environc_ok, environ_buf_size_ok)
    /\ UNCHANGED req

EnvironGetCall ==
    /\ out.path = "host" /\ out.pc = "running"
    /\ out' = environ_get(out)
    /\ UNCHANGED req

ProcExitCall ==
    /\ out.path = "host" /\ out.pc = "running"
    /\ \E code \in 0..1 :
          out' = [proc_exit(out, code) EXCEPT !.last = HostCall(out, "proc_exit", 0, code, 0, None, FALSE)]
    /\ UNCHANGED req

NextHost ==
    \/ FdReadCall
    \/ FdWriteCall
    \/ EnvironSizesGetCall
    \/ EnvironGetCall
    \/ ProcExitCall

SpecHost == InitHost /\ [][NextHost]_vars

(***************************************************************************)
(* Shared<T>: src/src/utils/mod.rs.  Threads call get concurrently; get is *)
(* OnceLock::get_or_init: a fast path that reads an initialized cell, and  *)
(* a slow path in which one thread runs the closure while the others wait  *)
(* for it.  Every invocation of create makes a new instance, numbered by   *)
(* the invocation.                                                         *)
(***************************************************************************)
Threads == {1, 2, 3}

\* Shared::new: the cell is empty and create has not been called.
InitShared ==
    /\ req \in [gets : [Threads -> 1..MaxGets]]
    /\ out = [path |-> "shared", instance |-> None, once |-> "incomplete", creates |-> 0,
              threads |-> [t \in Threads |-> [pc |-> "idle", left |-> req.gets[t],
                                              made |-> 0, got |-> <<>>]]]

\* A get that returns `instance` to its thread.
Returning(thread, instance) ==
    [thread EXCEPT !.pc = "idle", !.left = @ - 1, !.got = Append(@, instance)]

\* get: the fast path of get_or_init returns the instance of an initialized
\* cell; otherwise the thread enters the slow path.
SharedGet(t) ==
    /\ out.path = "shared"
    /\ out.threads[t].pc = "idle"
    /\ out.threads[t].left > 0
    /\ out' = IF IsSome(out.instance)
              THEN [out EXCEPT !.threads[t] = Returning(@, out.instance[1])]
              ELSE [out EXCEPT !.threads[t].pc = "initialize"]
    /\ UNCHANGED req

\* A slow path that runs the closure whatever the state of the cell.
SharedInitialize_unsynchronized(t) ==
    /\ out.path = "shared"
    /\ out.threads[t].pc = "initialize"
    /\ out' = [out EXCEPT !.once = "running", !.creates = @ + 1,
                          !.threads[t].pc = "create", !.threads[t].made = out.creates + 1]
    /\ UNCHANGED req

\* The slow path: the first thread to arrive runs (self.create)(); a thread
\* that arrives while it runs waits; one that arrives later reads the cell.
SharedInitialize(t) ==
    /\ out.path = "shared"
    /\ out.threads[t].pc = "initialize"
    /\ out.once # "running"
    /\ out' = IF out.once = "incomplete"
              THEN [out EXCEPT !.once = "running", !.creates = @ + 1,
                               !.threads[t].pc = "create",
                               !.threads[t].made = out.creates + 1]
              ELSE [out EXCEPT !.threads[t].pc = "read"]
    /\ UNCHANGED req

\* The closure has returned: its result is installed and the cell completed.
SharedInstall(t) ==
    /\ out.path = "shared"
    /\ out.threads[t].pc = "create"
    /\ out' = [out EXCEPT !.instance = Some(out.threads[t].made), !.once = "complete",
                          !.threads[t].pc = "read"]
    /\ UNCHANGED req

\* get returns the reference to the instance in the cell.
SharedReturn(t) ==
    /\ out.path = "shared"
    /\ out.threads[t].pc = "read"
    /\ out' = [out EXCEPT !.threads[t] = Returning(@, out.instance[1])]
    /\ UNCHANGED req

NextShared ==
    \E t \in Threads :
        \/ SharedGet(t)
        \/ SharedInitialize(t)
        \/ SharedInstall(t)
        \/ SharedReturn(t)

SpecShared == InitShared /\ [][NextShared]_vars

(***************************************************************************)
(* retry: src/src/utils/mod.rs.  Time is counted in ticks since start_time,*)
(* TicksPerSec to the second, so that "more than secs seconds" differs     *)
(* from "secs seconds".  The i-th call of f takes up to a second and ends  *)
(* in Ok(i) or Err(i); the sleep takes a second or a tick more.            *)
(***************************************************************************)
TicksPerSec == 2

\* Duration::from_secs(secs)
from_secs(secs) == secs * TicksPerSec

\* A timeout test that forgets that a zero timeout means no timeout.
TimedOut_zero_included(timeout, elapsed) == elapsed > timeout

\* !timeout.is_zero() && start_time.elapsed() > timeout
TimedOut(timeout, elapsed) == timeout # 0 /\ elapsed > timeout

\* let timeout = ..; let start_time = Instant::now();
InitRetry ==
    /\ req \in [secs : 0..MaxSecs]
    /\ out = [path |-> "retry", pc |-> "call", elapsed |-> 0, attempts |-> <<>>,
              returned |-> None, warned |-> 0]

\* r = f().await and the test of the loop on it: an Ok leaves the loop and is
\* returned, an Err is returned if the time is out, and otherwise it is
\* logged and the loop goes to sleep.
RetryCall ==
    /\ out.path = "retry"
    /\ out.pc = "call"
    /\ Len(out.attempts) < MaxCalls
    /\ \E d \in 0..TicksPerSec, ok \in BOOLEAN :
          LET r == [ok |-> ok, of |-> Len(out.attempts) + 1,
                    began |-> out.elapsed, ended |-> out.elapsed + d]
              tried == [out EXCEPT !.elapsed = @ + d, !.attempts = Append(@, r)]
          IN  out' = IF ok \/ TimedOut(from_secs(req.secs), tried.elapsed)
                     THEN [tried EXCEPT !.pc = "done", !.returned = Some(r)]
                     ELSE [tried EXCEPT !.pc = "sleep", !.warned = @ + 1]
    /\ UNCHANGED req

\* tokio::time::sleep(Duration::from_secs(1)).await
RetrySleep ==
    /\ out.path = "retry"
    /\ out.pc = "sleep"
    /\ \E d \in from_secs(1)..(from_secs(1) + 1) :
          out' = [out EXCEPT !.pc = "call", !.elapsed = @ + d]
    /\ UNCHANGED req

NextRetry ==
    \/ RetryCall
    \/ RetrySleep

SpecRetry == InitRetry /\ [][NextRetry]_vars

(***************************************************************************)
(* Properties.                                                             *)
(***************************************************************************)
\* What a request resolves to.
NormOf(r) == Spell_normalized(r.spell).val
SpellApps(r) == Range(apps(NormOf(r).norm_spell))
ResolvedTx(r) ==
    to_tx(NormOf(r).norm_spell, prev_spells(r.prev_txs), NormOf(r).tx_ins_beamed_source_utxos).val
ReferencedTxIds(r) ==
    LET n == NormOf(r)
    IN  prev_txids(n.norm_spell.tx)[1]
            \cup {n.tx_ins_beamed_source_utxos[u][1] : u \in DOMAIN n.tx_ins_beamed_source_utxos}
StructuralChecksPass(r) ==
    /\ well_formed(NormOf(r).norm_spell, prev_spells(r.prev_txs),
                   NormOf(r).tx_ins_beamed_source_utxos)
    /\ ReferencedTxIds(r) = {r.prev_txs[i].tx_id : i \in DOMAIN r.prev_txs}

\* The events of the outcome of a given kind, and those about one app.
Has(ev) == \E i \in DOMAIN out.events : out.events[i].ev = ev
HasFor(ev, a) == \E i \in DOMAIN out.events : out.events[i].ev = ev /\ out.events[i].app = a
NoSandbox == ~Has("simple") /\ ~Has("lookup") /\ ~Has("vk") /\ ~Has("exec")

\* The ancestors supplied, the list without one of them, acceptance.
AncestorIds(prev_txs) == {prev_txs[i].tx_id : i \in DOMAIN prev_txs}
Without(prev_txs, t) == SelectSeq(prev_txs, LAMBDA tx : tx.tx_id # t)
Accepts(r) == r.returned /\ r.value

\* The charms the ancestor's output carries, and those a transaction view
\* shows for an input.
AncestorCharms(r, utxo) ==
    IF utxo[1] \in AncestorIds(r.prev_txs)
    THEN charms_in_utxo(prev_spells(r.prev_txs)[utxo[1]], utxo)
    ELSE EmptyCharms
SeenCharms(tx, utxo) == tx.ins[CHOOSE i \in DOMAIN tx.ins : tx.ins[i][1] = utxo][2]

\* The run of app `a` cannot succeed: it is no simple transfer and its binary
\* is missing, has another hash, traps, or runs out of fuel under metering.
RunFails(count_cycles, app_binaries, tx, a) ==
    /\ ~is_simple_transfer(a, tx)
    /\ \/ a.vk \notin DOMAIN app_binaries
       \/ Sha256(app_binaries[a.vk]) # a.vk
       \/ app_binaries[a.vk].op = "trap"
       \/ count_cycles /\ app_binaries[a.vk].op = "spin"

\* The cost of each app of the request, in ascending App order: one entry
\* per app, the steps of its binary when it is run under metering.
ExpectedCost(count_cycles, a) ==
    IF is_simple_transfer(a, ResolvedTx(req)) \/ ~count_cycles THEN 0
    ELSE req.binaries[a.vk].steps
ExpectedCosts(count_cycles) ==
    LET sorted == SortApps(SpellApps(req))
    IN  [i \in DOMAIN sorted |-> ExpectedCost(count_cycles, sorted[i])]
CostsInAppOrder ==
    /\ (out.path = "run_all" /\ out.ok)
          => out.cycles = ExpectedCosts(out.arg.count_cycles)
    /\ (out.path = "validate" /\ out.ok) => out.cycles = ExpectedCosts(TRUE)
    /\ (out.path \in {"mock_prove", "prove"} /\ out.ok)
          => out.cycles = IF DOMAIN req.binaries = {} THEN <<>>
                          ELSE ExpectedCosts(out.arg.count_cycles)

\* C1: AppRunner::run returns an error and never instantiates or executes the
\* bytecode whenever the SHA-256 hash of app_binary differs from app.vk, for
\* every app, transaction view and input, with metering on or off.
C1_RunBindsBytecodeToVk ==
    (out.path = "run" /\ Sha256(out.arg.app_binary) # out.arg.app.vk)
        => /\ out.returned
           /\ ~out.ok
           /\ out.err = "app.vk mismatch"
           /\ out.cycles = <<>>
           /\ ~Has("exec")

C1_Witness ==
    /\ out.path = "run"
    /\ Sha256(out.arg.app_binary) # out.arg.app.vk
    /\ out.arg.app_binary.op = "return"
    /\ ~out.arg.count_cycles
    /\ ~out.ok

\* C2: for a spell that passed the structural checks and with no app input
\* (app_input is None), is_correct returns true if and only if every app of
\* the spell is a simple transfer in the resolved transaction view; the
\* sandbox is never invoked, and a spell with a non-simple-transfer app and
\* no app input is never accepted.
C2_NoAppInputAcceptsExactlySimpleTransfers ==
    (out.path = "is_correct" /\ IsNone(out.arg.app_input) /\ StructuralChecksPass(req))
        => /\ out.returned
           /\ out.ok <=> \A a \in SpellApps(req) : is_simple_transfer(a, ResolvedTx(req))
           /\ NoSandbox

C2_Witness ==
    /\ out.path = "is_correct"
    /\ IsNone(out.arg.app_input)
    /\ StructuralChecksPass(req)
    /\ Cardinality(SpellApps(req)) = 2
    /\ \E a \in SpellApps(req) : is_simple_transfer(a, ResolvedTx(req))
    /\ \E a \in SpellApps(req) : ~is_simple_transfer(a, ResolvedTx(req))
    /\ ~out.ok

\* C3: when app input is supplied (app_input is Some), is_correct returns true
\* only if every app of the spell (every element of charms_client::apps(spell))
\* is a simple transfer or has had its bytecode run successfully in the
\* sandbox; no app is left unexamined, whatever the key set of the supplied
\* app_public_inputs map is.
C3_EveryAppOfTheSpellExamined ==
    (out.path = "is_correct" /\ IsSome(out.arg.app_input) /\ out.returned /\ out.ok)
        => \A a \in SpellApps(req) :
              is_simple_transfer(a, ResolvedTx(req)) \/ HasFor("exec", a)

\* C4: in every verification path (is_correct, validate_prove_request,
\* MockProver::prove, SpellCli::check) the structural well-formedness check is
\* evaluated before any app bytecode is run, so no sandbox execution happens
\* for a spell that fails the structural check.
C4_StructuralCheckBeforeAnyBytecode ==
    out.path \in {"is_correct", "validate", "mock_prove", "check"}
        => \A i \in DOMAIN out.events :
              out.events[i].ev = "exec"
                  => \E j \in 1..(i - 1) : out.events[j] = WellFormedEvent(TRUE)

\* C5: is_correct accepts a spell only if the set of transaction ids
\* referenced by its inputs, reference inputs and beam-source bindings is
\* exactly the key set of the ancestor map: an extra unreferenced ancestor
\* causes rejection, and removing any single referenced ancestor from the map
\* turns an accepted spell into a rejected one.
C5_AncestorsExactlyTheReferenced ==
    (out.path = "is_correct" /\ out.returned /\ out.ok)
        => /\ ReferencedTxIds(req) = AncestorIds(req.prev_txs)
           /\ \A t \in ReferencedTxIds(req) :
                 ~Accepts(is_correct(NormOf(req).norm_spell, Without(req.prev_txs, t),
                                     out.arg.app_input, NormOf(req).tx_ins_beamed_source_utxos))

C5_Witness ==
    /\ out.path = "is_correct"
    /\ out.returned /\ out.ok
    /\ Cardinality(ReferencedTxIds(req)) = 2
    /\ DOMAIN NormOf(req).tx_ins_beamed_source_utxos # {}

\* C6: the charm map that app contracts see for a non-beamed input equals the
\* charm map of the referenced ancestor output: a spell whose declared input
\* charms for a UtxoId differ from the ancestor's output charms for it is
\* rejected before any sandbox run, in SpellCli::check as well as in proving.
C6_InputCharmsAreTheAncestorOutputCharms ==
    out.path \in {"check", "validate", "mock_prove"}
        => \A i \in DOMAIN req.spell.ins :
              LET inp == req.spell.ins[i]
              IN  (IsSome(inp.utxo_id) /\ IsNone(inp.beamed_from))
                    => /\ \A e \in DOMAIN out.events :
                             out.events[e].ev = "exec"
                                 => SeenCharms(out.events[e].stdin[2], inp.utxo_id[1])
                                        = AncestorCharms(req, inp.utxo_id[1])
                       /\ (/\ Spell_charms(req.spell, inp.charms).ok
                           /\ Spell_charms(req.spell, inp.charms).val
                                  # AncestorCharms(req, inp.utxo_id[1]))
                             => ~out.ok /\ ~Has("exec")

\* C7: in run_all, for every app for which is_simple_transfer(app, tx) is
\* true the sandbox is not run, the app's binary is not looked up (a missing
\* or hash-mismatched binary for it causes no error) and its cost is 0.
C7_SimpleTransferIsSkipped ==
    out.path = "run_all"
        => LET items == out.arg.app_public_inputs
               simple(i) == is_simple_transfer(items[i][1], out.arg.tx)
           IN  /\ \A i \in DOMAIN items :
                     simple(i) => /\ ~HasFor("lookup", items[i][1])
                                  /\ ~HasFor("vk", items[i][1])
                                  /\ ~HasFor("exec", items[i][1])
                                  /\ out.ok => out.cycles[i] = 0
               /\ (\A i \in DOMAIN items : simple(i)) => out.ok
               /\ ~out.ok => ~is_simple_transfer(out.events[Len(out.events)].app, out.arg.tx)

C7_Witness ==
    /\ out.path = "run_all"
    /\ out.ok
    /\ \E a \in SpellApps(req) :
          is_simple_transfer(a, out.arg.tx) /\ a.vk \notin DOMAIN req.binaries
    /\ \E i \in DOMAIN out.cycles : out.cycles[i] > 0

\* C8: in run_all, for every app that is not a simple transfer and whose
\* verification key has no entry in app_binaries, run_all returns an error
\* (the missing binary, when the iteration reaches that app) and no cycle
\* vector.
C8_MissingBinaryIsAnError ==
    out.path = "run_all"
        => \A i \in DOMAIN out.arg.app_public_inputs :
              LET a == out.arg.app_public_inputs[i][1]
              IN  (~is_simple_transfer(a, out.arg.tx) /\ a.vk \notin DOMAIN req.binaries)
                    => /\ ~out.ok
                       /\ out.cycles = <<>>
                       /\ HasFor("lookup", a) => out.err = "app binary not found"
                       /\ ~HasFor("vk", a)

C8_Witness ==
    /\ out.path = "run_all"
    /\ Len(out.arg.app_public_inputs) = 2
    /\ HasFor("exec", out.arg.app_public_inputs[1][1])
    /\ out.arg.app_public_inputs[2][1].vk \notin DOMAIN req.binaries
    /\ out.err = "app binary not found"

\* C9: there is no partial acceptance: if the sandbox run of any single app
\* fails (integrity mismatch, trap, fuel exhaustion or missing binary),
\* run_all returns an error with no per-app results, and is_correct never
\* returns true for that transaction.
C9_NoPartialAcceptance ==
    /\ out.path = "run_all"
          => ((\E i \in DOMAIN out.arg.app_public_inputs :
                  RunFails(out.arg.count_cycles, req.binaries, out.arg.tx,
                           out.arg.app_public_inputs[i][1]))
                => ~out.ok /\ out.cycles = <<>>)
    /\ (out.path = "is_correct" /\ IsSome(out.arg.app_input))
          => LET app_input == out.arg.app_input[1]
             IN  (\E i \in DOMAIN app_input.app_public_inputs :
                     RunFails(FALSE, app_input.app_binaries, ResolvedTx(req),
                              app_input.app_public_inputs[i][1]))
                   => ~(out.returned /\ out.ok)

C9_Witness ==
    /\ out.path = "is_correct"
    /\ IsSome(out.arg.app_input)
    /\ Len(out.arg.app_input[1].app_public_inputs) = 2
    /\ HasFor("exec", out.arg.app_input[1].app_public_inputs[1][1])
    /\ HasFor("exec", out.arg.app_input[1].app_public_inputs[2][1])
    /\ RunFails(FALSE, req.binaries, ResolvedTx(req),
                out.arg.app_input[1].app_public_inputs[2][1])
    /\ ~out.returned

\* C10: on success run_all returns exactly one cost per entry of
\* app_public_inputs, listed in ascending App order, whatever the order in
\* which the caller built the maps.  The total that MockProver::prove and
\* validate_prove_request report is the sum of that vector; the total that
\* Prover::prove reports is that sum plus the cycles of the spell checker.
C10_TotalIsSumOrSumPlusSpellCycles ==
    /\ CostsInAppOrder
    /\ (out.path \in {"validate", "mock_prove"} /\ out.ok) => out.total = SumSeq(out.cycles)
    /\ (out.path = "prove" /\ out.ok)
          => out.total = SumSeq(out.cycles) + out.arg.spell_cycles

C10_Witness ==
    /\ out.path = "prove"
    /\ out.ok
    /\ Len(out.cycles) = 2
    /\ out.cycles[1] > out.cycles[2]
    /\ out.cycles[2] > 0
    /\ out.arg.spell_cycles > 0

\* C10 as stated: every prover reports the sum of the vector.
C10_TotalIsSum ==
    /\ CostsInAppOrder
    /\ (out.path \in {"validate", "mock_prove", "prove"} /\ out.ok)
          => out.total = SumSeq(out.cycles)

\* C11: for every well-formed spell in which every app is a simple transfer
\* and for which no app binaries are supplied, verification succeeds and the
\* total app cost reported is 0 (validate_prove_request still applies its
\* chain-specific checks afterwards).
C11_SimpleTransfersWithoutBinariesCostNothing ==
    (/\ out.path \in {"run_all", "mock_prove", "validate", "prove", "check"}
     /\ StructuralChecksPass(req)
     /\ DOMAIN req.binaries = {}
     /\ \A a \in SpellApps(req) : is_simple_transfer(a, ResolvedTx(req)))
        => /\ out.returned
           /\ ~Has("lookup") /\ ~Has("vk") /\ ~Has("exec")
           /\ out.path # "validate" => out.ok
           /\ out.path = "validate" => out.ok = out.arg.chain_ok /\ out.err \in {"", "chain"}
           /\ out.ok => SumSeq(out.cycles) = 0
           /\ (out.ok /\ out.path # "prove") => out.total = 0

C11_Witness ==
    /\ out.path = "validate"
    /\ StructuralChecksPass(req)
    /\ DOMAIN req.binaries = {}
    /\ Cardinality(SpellApps(req)) = 2
    /\ \A a \in SpellApps(req) : is_simple_transfer(a, ResolvedTx(req))
    /\ out.ok
    /\ out.cycles = <<0, 0>>
    /\ out.total = 0

\* The invocations that have returned, their results and their arguments.
Returned(i) == out.runs[i].pc = "done"
ResultOf(i) == out.runs[i].result[1]
BinaryOf(i) == req.calls[i].app_binary
Bound(i) == req.calls[i].app.vk = Sha256(BinaryOf(i))
IsPrefix(s, t) == Len(s) <= Len(t) /\ s = SubSeq(t, 1, Len(s))

\* C12: on a successful run the cost AppRunner::run returns is MAX_FUEL_PER_RUN
\* minus the fuel remaining (between 0 and MAX_FUEL_PER_RUN, never
\* underflowing) when metering is enabled, and exactly 0 when it is disabled.
C12_CostIsFuelConsumedOrZero ==
    out.path = "sandbox"
        => \A i \in Runs :
              (Returned(i) /\ ResultOf(i).ok)
                 => IF req.count_cycles
                    THEN /\ out.runs[i].fuel \in 0..MAX_FUEL_PER_RUN
                         /\ ResultOf(i).cycles = MAX_FUEL_PER_RUN - out.runs[i].fuel
                         /\ ResultOf(i).cycles = FuelNeeded(BinaryOf(i))
                         /\ ResultOf(i).cycles \in 0..MAX_FUEL_PER_RUN
                    ELSE ResultOf(i).cycles = 0

C12_Witness ==
    /\ out.path = "sandbox"
    /\ req.count_cycles
    /\ Returned(1) /\ ResultOf(1).ok
    /\ ResultOf(1).cycles = MaxSteps
    /\ out.runs[1].fuel = MAX_FUEL_PER_RUN - MaxSteps

\* C13: with metering enabled, an execution that would consume more than
\* MAX_FUEL_PER_RUN steps never yields a success from AppRunner::run: it is
\* aborted and run returns an error, with no cost value.
C13_FuelCapIsEnforced ==
    out.path = "sandbox"
        => \A i \in Runs :
              (/\ Returned(i)
               /\ req.count_cycles
               /\ FuelNeeded(BinaryOf(i)) > MAX_FUEL_PER_RUN)
                 => /\ ~ResultOf(i).ok
                    /\ ResultOf(i).cycles = 0
                    /\ Bound(i) => ResultOf(i).err = "out of fuel"

C13_Witness ==
    /\ out.path = "sandbox"
    /\ req.count_cycles
    /\ Returned(2)
    /\ Bound(2)
    /\ BinaryOf(2).op = "spin"
    /\ ResultOf(2).err = "out of fuel"

\* C14: whenever the app bytecode terminates abnormally, by trapping or by
\* calling proc_exit with a nonzero exit code, AppRunner::run returns an error
\* (contract rejected) and never a cost, and that outcome differs from the
\* ones of the sandbox's own faults (integrity mismatch, fuel exhaustion).
C14_AbnormalTerminationIsRejection ==
    out.path = "sandbox"
        => \A i \in Runs :
              (Returned(i) /\ Bound(i) /\ BinaryOf(i).op \in {"trap", "exit"})
                 => /\ ~ResultOf(i).ok
                    /\ ResultOf(i).cycles = 0
                    /\ ResultOf(i).err \notin {"app.vk mismatch", "out of fuel"}

\* C16: every AppRunner::run invocation builds its own fresh stdin buffer and
\* store, so its result (success or failure, and cost) is a function of its
\* arguments only, unaffected by earlier and by concurrently running
\* invocations, and no invocation reads stdin bytes of another invocation.
C16_InvocationsAreIsolated ==
    out.path = "sandbox"
        => /\ \A i \in Runs :
                 /\ IsPrefix(out.runs[i].mem, StdinOf(i))
                 /\ out.runs[i].stdin # 0
                        => out.runs[i].mem \o out.heap[out.runs[i].stdin] = StdinOf(i)
                 /\ Returned(i)
                        => LET c == req.calls[i]
                               r == AppRunner_run(req.count_cycles, c.app_binary, c.app,
                                                  c.tx, c.x, c.w)
                           IN  /\ ResultOf(i).ok = r.ok
                               /\ ResultOf(i).err = r.err
                               /\ ResultOf(i).cycles = r.cycles
           /\ \A i, j \in Runs :
                 (i # j /\ out.runs[i].stdin # 0) => out.runs[i].stdin # out.runs[j].stdin

C16_Witness ==
    /\ out.path = "sandbox"
    /\ \A i \in Runs : out.runs[i].pc = "called" /\ BinaryOf(i).op = "read"
    /\ out.runs[1].mem = StdinOf(1)
    /\ out.runs[2].mem = StdinOf(2)
    /\ out.runs[1].mem # out.runs[2].mem

\* C15: the stdin content run_all hands to an app's run is made of the app,
\* the transaction view and that app's own public and private inputs only:
\* for two run_all calls that differ only in the public or private inputs of
\* other apps, the stdin content of this app's run is identical.
C15_StdinDependsOnOwnInputsOnly ==
    out.path = "run_all"
        => \A k \in DOMAIN req.spell.apps :
              LET app == req.spell.apps[k]
              IN  /\ ExecStdin(out.events, app)
                        \subseteq {StdinContent(app, out.arg.tx,
                                                OwnArg(req.spell.public_args, k),
                                                OwnArg(req.spell.private_args, k))}
                  /\ \A pub \in SameOwnArg(req.spell.public_args, k),
                        priv \in SameOwnArg(req.spell.private_args, k) :
                        ExecStdin(RunAllOn(out.arg.count_cycles,
                                           [req.spell EXCEPT !.public_args = pub,
                                                             !.private_args = priv],
                                           req.prev_txs, req.binaries).events, app)
                           = ExecStdin(out.events, app)

C15_Witness ==
    /\ out.path = "run_all"
    /\ out.ok
    /\ IsSome(req.spell.private_args)
    /\ \A a \in ArgApps :
          /\ Key(a) \in DOMAIN req.spell.private_args[1]
          /\ req.spell.private_args[1][Key(a)] = a.id
          /\ ExecStdin(out.events, a) # {}
          /\ \A s \in ExecStdin(out.events, a) : s[4] = a.id

\* C17: Spell::normalized returns an error, and no NormalizedSpell, whenever
\* the version is not CURRENT_VERSION, two app keys map to the same App, two
\* inputs have the same UtxoId, or an input or reference input lacks a
\* UtxoId; outputs carry no UtxoId, and a spell with none of these defects
\* whose output charm keys are in the app table is normalized.
C17_MalformedSpellsAreRefused ==
    out.path = "normalized"
        => /\ (\/ WrongVersion(req.spell)
                \/ DuplicateApps(req.spell)
                \/ DuplicateInputs(req.spell)
                \/ UnanchoredInput(req.spell)
                \/ UnanchoredRef(req.spell))
                  => ~out.result.ok /\ out.result.val = <<>>
           /\ (/\ ~WrongVersion(req.spell)
               /\ ~DuplicateApps(req.spell)
               /\ ~DuplicateInputs(req.spell)
               /\ ~UnanchoredInput(req.spell)
               /\ ~UnanchoredRef(req.spell)
               /\ ~UnknownOutputKey(req.spell))
                  => out.result.ok

C17_Witness ==
    /\ out.path = "normalized"
    /\ DuplicateInputs(req.spell)
    /\ ~WrongVersion(req.spell)
    /\ ~DuplicateApps(req.spell)
    /\ ~UnanchoredRef(req.spell)
    /\ out.result.err = "duplicate inputs"

\* C18: Spell::normalized fails whenever a charm map of the spell, on an
\* input, a reference input or an output, uses a key that is not in the
\* spell's app table.
C18_UnknownCharmKeysAreRefused ==
    out.path = "normalized"
        => ((UnknownInputKey(req.spell) \/ UnknownOutputKey(req.spell)) => ~out.result.ok)

\* C19: in a NormalizedSpell produced by Spell::normalized the index of an
\* app in the output charm maps is the app's rank, from 0 and dense, in the
\* ascending order of the spell's Apps, and a spell that differs only by a
\* renaming of the app keys normalizes to the same result.
C19_AppIndexIsRankInAppOrder ==
    (out.path = "normalized" /\ out.result.ok)
        => LET spell == req.spell
               n == out.result.val.norm_spell
               S == Range(spell.apps)
           IN  /\ Len(n.app_public_inputs) = Cardinality(S)
               /\ \A a \in S : n.app_public_inputs[Rank(a, S) + 1][1] = a
               /\ \A i \in DOMAIN spell.outs :
                     /\ DOMAIN n.tx.outs[i]
                           = {Rank(spell.apps[k], S) : k \in CharmKeys(spell.outs[i])}
                     /\ DOMAIN n.tx.outs[i] \subseteq 0..(Cardinality(S) - 1)
                     /\ \A k \in CharmKeys(spell.outs[i]) :
                           n.tx.outs[i][Rank(spell.apps[k], S)] = spell.outs[i].charms[1][k]
               /\ \A rho \in Renamings :
                     Spell_normalized(RenamedSpell(spell, rho)) = out.result

C19_Witness ==
    /\ out.path = "normalized"
    /\ out.result.ok
    /\ DOMAIN req.spell.apps = {KeyA, KeyB}
    /\ AppLess(req.spell.apps[KeyB], req.spell.apps[KeyA])
    /\ Len(req.spell.outs) = 2
    /\ CharmKeys(req.spell.outs[1]) = {KeyA, KeyB}
    /\ out.result.val.norm_spell.tx.outs[1][0] = req.spell.outs[1].charms[1][KeyB]
    /\ out.result.val.norm_spell.tx.outs[1][0] # out.result.val.norm_spell.tx.outs[1][1]

\* C20: Spell::denormalized gives the app of canonical index i the key
\* str_index(i) ("$0000", "$0001", ...) in ascending app-index order, uses
\* that key for the app in public_args and in every output charm map, and
\* sets an output's charms to None exactly when its normalized charm map is
\* empty.
C20_DenormalizedKeysArePositional ==
    (out.path = "denormalized" /\ out.result.ok)
        => LET n == out.norm_spell
               spell == out.result.val
               api == n.app_public_inputs
               indexes == {i - 1 : i \in DOMAIN api}
               with_input == {i \in indexes : api[i + 1][2] # EmptyData}
           IN  /\ DOMAIN spell.apps = {PositionalKey(i) : i \in indexes}
               /\ \A i \in indexes :
                     /\ str_index(i) = PositionalKey(i)
                     /\ spell.apps[PositionalKey(i)] = api[i + 1][1]
               /\ \A i, j \in indexes : i < j => StrLess(PositionalKey(i), PositionalKey(j))
               /\ IF with_input = {} THEN IsNone(spell.public_args)
                  ELSE /\ IsSome(spell.public_args)
                       /\ DOMAIN spell.public_args[1] = {PositionalKey(i) : i \in with_input}
                       /\ \A i \in with_input :
                             spell.public_args[1][PositionalKey(i)] = api[i + 1][2]
               /\ Len(spell.outs) = Len(n.tx.outs)
               /\ \A o \in DOMAIN n.tx.outs :
                     /\ IsNone(spell.outs[o].charms) <=> DOMAIN n.tx.outs[o] = {}
                     /\ CharmKeys(spell.outs[o]) = {PositionalKey(i) : i \in DOMAIN n.tx.outs[o]}
                     /\ \A i \in DOMAIN n.tx.outs[o] :
                           spell.outs[o].charms[1][PositionalKey(i)] = n.tx.outs[o][i]

C20_Witness ==
    /\ out.path = "denormalized"
    /\ out.result.ok
    /\ Len(out.norm_spell.app_public_inputs) = 2
    /\ out.norm_spell.app_public_inputs[1][2] = EmptyData
    /\ IsSome(out.result.val.public_args)
    /\ DOMAIN out.result.val.public_args[1] = {PositionalKey(1)}
    /\ Len(out.result.val.outs) = 2
    /\ CharmKeys(out.result.val.outs[1]) = {PositionalKey(0), PositionalKey(1)}
    /\ IsNone(out.result.val.outs[2].charms)

\* C21: Spell::denormalized never fails on a well-formed NormalizedSpell, the
\* on-chain form returned by the provers, whose input list has been cleared
\* (tx.ins is None), included.
C21_DenormalizedNeverFails ==
    out.path = "denormalized" => out.result.ok

\* C22: for every spell s that normalizes, denormalized(normalized(s).0)
\* succeeds and preserves the canonical projection of s (the set of Apps, the
\* ordered input and reference UtxoIds, every output's App-to-Data charms,
\* the non-empty public inputs per App, the beam-to marker per output), and
\* normalizing the result again yields the same NormalizedSpell.
C22_RoundTripPreservesProjection ==
    (out.path = "denormalized" /\ out.norm_spell = NormOf(req).norm_spell)
        => /\ out.result.ok
           /\ Projection(out.result.val) = Projection(req.spell)
           /\ Spell_normalized(out.result.val).ok
           /\ Spell_normalized(out.result.val).val.norm_spell = out.norm_spell

C22_Witness ==
    /\ out.path = "denormalized"
    /\ out.norm_spell = NormOf(req).norm_spell
    /\ out.result.ok
    /\ DOMAIN req.spell.apps = {KeyA, KeyB}
    /\ AppLess(req.spell.apps[KeyB], req.spell.apps[KeyA])
    /\ OwnArg(req.spell.public_args, KeyA) # EmptyData
    /\ OwnArg(req.spell.public_args, KeyB) = EmptyData
    /\ Len(req.spell.outs) = 2
    /\ CharmKeys(req.spell.outs[1]) = {KeyA, KeyB}
    /\ IsSome(req.spell.outs[2].beam_to)
    /\ out.result.val.outs[2].beam_to = req.spell.outs[2].beam_to

\* C23: Spell::to_tx fails if an input or reference input has no UtxoId or
\* no charm map, whereas an output with no charm map does not make it fail
\* and gets an empty charm map in the Transaction; on success the
\* Transaction has one entry per input, reference input and output, in the
\* spell's order.
C23_ToTxDefaultsOutputCharms ==
    out.path = "to_tx"
        => LET spell == req.spell
               refs == IF IsSome(spell.refs) THEN spell.refs[1] ELSE <<>>
               tx == out.result.val
           IN  /\ (UnanchoredInput(spell) \/ UnanchoredRef(spell) \/ UncharmedInput(spell))
                     => ~out.result.ok
               /\ (/\ ~UnanchoredInput(spell) /\ ~UnanchoredRef(spell) /\ ~UncharmedInput(spell)
                   /\ ~UnknownInputKey(spell) /\ ~UnknownOutputKey(spell))
                     => out.result.ok
               /\ out.result.ok
                     => /\ Len(tx.ins) = Len(spell.ins)
                        /\ Len(tx.refs) = Len(refs)
                        /\ Len(tx.outs) = Len(spell.outs)
                        /\ \A i \in DOMAIN spell.ins :
                              /\ tx.ins[i][1] = spell.ins[i].utxo_id[1]
                              /\ tx.ins[i][2] = AppCharms(spell, spell.ins[i])
                        /\ \A i \in DOMAIN refs :
                              /\ tx.refs[i][1] = refs[i].utxo_id[1]
                              /\ tx.refs[i][2] = AppCharms(spell, refs[i])
                        /\ \A i \in DOMAIN spell.outs :
                              tx.outs[i] = IF IsNone(spell.outs[i].charms) THEN EmptyCharms
                                           ELSE AppCharms(spell, spell.outs[i])

\* C24: in every NormalizedSpell produced by Spell::normalized the keys of
\* app_public_inputs are the Apps of the spell's app table, an app with no
\* public argument being mapped to empty Data; the private-input map
\* returned has the same keys; and run_all hands empty Data to an app for
\* which its private-input map has no entry.
C24_EveryAppHasInputs ==
    out.path \in {"run_all", "run_all_private"}
        => LET n == NormOf(req)
               public == n.norm_spell.app_public_inputs
               private == n.app_private_inputs
           IN  /\ BTreeKeys(public) = Range(req.spell.apps)
               /\ BTreeKeys(private) = Range(req.spell.apps)
               /\ Len(public) = Cardinality(Range(req.spell.apps))
               /\ Len(private) = Cardinality(Range(req.spell.apps))
               /\ \A k \in DOMAIN req.spell.apps :
                     /\ BTreeGet(public, req.spell.apps[k])
                           = Some(OwnArg(req.spell.public_args, k))
                     /\ BTreeGet(private, req.spell.apps[k])
                           = Some(OwnArg(req.spell.private_args, k))
               /\ out.path = "run_all_private"
                     => \A a \in Range(req.spell.apps) :
                           \A stdin \in ExecStdin(out.events, a) :
                              stdin[4] = IF a \in BTreeKeys(out.arg.app_private_inputs)
                                         THEN BTreeGet(private, a)[1] ELSE EmptyData

C24_Witness ==
    /\ out.path = "run_all_private"
    /\ out.ok
    /\ out.arg.app_private_inputs = <<>>
    /\ IsNone(req.spell.public_args)
    /\ IsSome(req.spell.private_args)
    /\ \A a \in ArgApps :
          /\ OwnArg(req.spell.private_args, Key(a)) # EmptyData
          /\ BTreeGet(NormOf(req).norm_spell.app_public_inputs, a) = Some(EmptyData)
          /\ ExecStdin(out.events, a) # {}
          /\ \A stdin \in ExecStdin(out.events, a) : stdin[4] = EmptyData

\* C25: the NormalizedSpell returned by a successful prove, of Prover and of
\* MockProver, has its input list cleared (tx.ins is None) and is otherwise
\* the spell that was proven: version, reference inputs, outputs, beamed
\* outputs and app public inputs are unchanged; its mock flag is true
\* exactly for MockProver.
C25_ProvenSpellIsTheOnChainForm ==
    (out.path \in {"mock_prove", "prove"} /\ out.ok)
        => LET proven == NormOf(req).norm_spell
               returned == out.spell[1]
           IN  /\ IsSome(out.spell)
               /\ IsSome(proven.tx.ins)
               /\ IsNone(returned.tx.ins)
               /\ returned.version = proven.version
               /\ returned.tx.refs = proven.tx.refs
               /\ returned.tx.outs = proven.tx.outs
               /\ returned.tx.beamed_outs = proven.tx.beamed_outs
               /\ returned.app_public_inputs = proven.app_public_inputs
               /\ returned.mock <=> out.path = "mock_prove"
               /\ returned = [proven EXCEPT !.tx.ins = None, !.mock = (out.path = "mock_prove")]

C25_Witness ==
    /\ out.path = "prove"
    /\ out.ok
    /\ IsSome(out.spell)
    /\ IsSome(out.spell[1].tx.refs)
    /\ Len(NormOf(req).norm_spell.tx.ins[1]) = 1
    /\ IsNone(out.spell[1].tx.ins)
    /\ ~out.spell[1].mock

\* C26: metering monotonicity: for the same bytecode and input, a run that
\* fails with fuel exhaustion under a budget either succeeds, is rejected by
\* the contract or is exhausted again under any larger budget, never fails
\* in another way; and a run that completed within the budget has the same
\* outcome under the larger one.  Under the budget MAX_FUEL_PER_RUN the run
\* is AppRunner::run.
C26_MeteringIsMonotone ==
    /\ out.path = "raised_run"
          => IF out.before.err = "out of fuel"
             THEN out.result.ok \/ out.result.err \in {"error running wasm", "out of fuel"}
             ELSE out.result = out.before
    /\ (out.path \in {"budget_run", "raised_run"} /\ req.budget = MAX_FUEL_PER_RUN)
          => out.result = AppRunner_run(req.count_cycles, req.app_binary, req.app, req.tx,
                                        req.x, req.w)

C26_Witness ==
    /\ out.path = "raised_run"
    /\ out.before.err = "out of fuel"
    /\ req.app_binary.op = "trap"
    /\ req.budget = MAX_FUEL_PER_RUN
    /\ out.result.err = "error running wasm"

C28_StdinIsDeliveredOnce ==
    out.path = "host"
        => /\ out.delivered \o out.stdin = req.content
           /\ (out.last.call = "fd_read" /\ out.last.fd = 0)
                 => LET c == out.last
                        removed == Len(c.stdin_before) - Len(out.stdin)
                    IN  /\ removed > 0 => c.reported = Some(removed)
                        /\ IsSome(c.reported) => c.reported[1] = removed
                        /\ removed <= SumSeq(c.arg)
                        /\ c.stdin_before = <<>> => removed = 0

\* C29: for a Shared<T>, under any interleaving of concurrent get calls the
\* result of create is installed at most once, every get call, concurrent
\* or later, returns a reference to that one instance, and create is never
\* invoked before the first get.
C29_SharedIsCreatedOnce ==
    out.path = "shared"
        => /\ out.creates <= 1
           /\ out.instance \in {None, Some(1)}
           /\ IsSome(out.instance) <=> out.once = "complete"
           /\ \A t \in Threads :
                 \A i \in DOMAIN out.threads[t].got :
                    IsSome(out.instance) /\ out.threads[t].got[i] = out.instance[1]
           /\ out.creates > 0
                 => \E t \in Threads :
                       out.threads[t].pc # "idle" \/ out.threads[t].left < req.gets[t]

C29_Witness ==
    /\ out.path = "shared"
    /\ out.creates = 1
    /\ \A t \in Threads :
          /\ req.gets[t] = MaxGets
          /\ out.threads[t].left = 0
          /\ out.threads[t].pc = "idle"
          /\ Len(out.threads[t].got) = MaxGets
    /\ out.threads[1].made = 0
    /\ out.threads[2].made = 1

\* C30: retry(secs, f) calls f at least once, returns the first Ok of f
\* without calling f again, and returns an Err only when secs is nonzero and
\* more than secs seconds have passed since the start, the error being that
\* of the most recent attempt; with secs = 0 it never returns an error and
\* goes on retrying, at most one attempt a second, as long as f fails, so
\* that it has returned only if f succeeded.
C30_RetryReturnsFirstOkOrTimesOut ==
    out.path = "retry"
        => LET n == Len(out.attempts) IN
           /\ \A i \in 1..n : out.attempts[i].of = i
           /\ \A i \in 1..(n - 1) :
                 /\ ~out.attempts[i].ok
                 /\ out.attempts[i + 1].began >= out.attempts[i].ended + from_secs(1)
           /\ out.warned = Cardinality({i \in 1..n : ~out.attempts[i].ok})
                               - (IF IsSome(out.returned) /\ ~out.returned[1].ok THEN 1 ELSE 0)
           /\ (out.pc = "done") <=> IsSome(out.returned)
           /\ out.pc = "done"
                 => /\ n >= 1
                    /\ out.returned[1] = out.attempts[n]
                    /\ ~out.returned[1].ok
                          => /\ req.secs # 0
                             /\ out.elapsed > req.secs * TicksPerSec
                    /\ req.secs = 0 => out.returned[1].ok
           /\ (out.pc # "done" /\ n >= 1)
                 => /\ ~out.attempts[n].ok
                    /\ out.pc \in {"sleep", "call"}
                    /\ req.secs # 0 => out.attempts[n].ended <= req.secs * TicksPerSec

C30_Witness ==
    /\ out.path = "retry"
    /\ out.pc = "done"
    /\ req.secs = 1
    /\ Len(out.attempts) = 2
    /\ ~out.returned[1].ok
    /\ out.returned[1].of = 2
    /\ out.elapsed = from_secs(1) + 1

C30_WitnessNoTimeout ==
    /\ out.path = "retry"
    /\ req.secs = 0
    /\ out.pc = "done"
    /\ Len(out.attempts) = MaxCalls
    /\ out.returned[1].ok
    /\ out.warned = MaxCalls - 1
====
